---------------------------- MODULE Spec2Model ----------------------------
(***************************************************************************)
(* Model of the site-reporter backend: the REST handlers of                *)
(* backend/app/routers/pipeline.py and the services they call              *)
(* (template inference with field extraction, report rendering, the DOCX   *)
(* filler, the transcription client).                                      *)
(*                                                                         *)
(* Text is modelled character by character: a Python str is a sequence of  *)
(* one-character strings.  Characters outside ASCII carry ASCII names      *)
(* ("e_ac" is e-acute, "e_gr" e-grave, "a_ci" a-circumflex, "a_gr"         *)
(* a-grave, "E_ac" capital e-acute, "bullet" the report's square bullet,   *)
(* "hline" its horizontal rule, "bq" the backquote of a code fence); each  *)
(* such name is ONE character.                                             *)
(***************************************************************************)
EXTENDS Integers, Sequences, FiniteSets, TLC

----------------------------------------------------------------------------
(* The string literals of the program.                                     *)

\* "probleme_decouverte"
T_probleme_decouverte ==
    <<"p", "r", "o", "b", "l", "e", "m", "e", "_", "d", "e", "c", "o", "u", "v", "e", "r", "t", "e">>

\* "tour_securite"
T_tour_securite ==
    <<"t", "o", "u", "r", "_", "s", "e", "c", "u", "r", "i", "t", "e">>

\* "tache_assignee"
T_tache_assignee ==
    <<"t", "a", "c", "h", "e", "_", "a", "s", "s", "i", "g", "n", "e", "e">>

\* "rapport_generique"
T_rapport_generique ==
    <<"r", "a", "p", "p", "o", "r", "t", "_", "g", "e", "n", "e", "r", "i", "q", "u", "e">>

\* "Nom du chantier"
F_NomChantier ==
    <<"N", "o", "m", " ", "d", "u", " ", "c", "h", "a", "n", "t", "i", "e", "r">>

\* "Emetteur du signalement"
F_Emetteur ==
    <<"E", "m", "e", "t", "t", "e", "u", "r", " ", "d", "u", " ", "s", "i", "g", "n", "a", "l",
      "e", "m", "e", "n", "t">>

\* "Date de decouverte"
F_DateDecouverte ==
    <<"D", "a", "t", "e", " ", "d", "e", " ", "d", "e_ac", "c", "o", "u", "v", "e", "r", "t", "e">>

\* "Heure de decouverte"
F_HeureDecouverte ==
    <<"H", "e", "u", "r", "e", " ", "d", "e", " ", "d", "e_ac", "c", "o", "u", "v", "e", "r", "t",
      "e">>

\* "Adresse"
F_Adresse ==
    <<"A", "d", "r", "e", "s", "s", "e">>

\* "Niveau d'urgence"
F_NiveauUrgence ==
    <<"N", "i", "v", "e", "a", "u", " ", "d", "'", "u", "r", "g", "e", "n", "c", "e">>

\* "Personnes prevenues"
F_PersonnesPrevenues ==
    <<"P", "e", "r", "s", "o", "n", "n", "e", "s", " ", "p", "r", "e_ac", "v", "e", "n", "u", "e",
      "s">>

\* "Date"
F_Date ==
    <<"D", "a", "t", "e">>

\* "Heure"
F_Heure ==
    <<"H", "e", "u", "r", "e">>

\* "Operateur"
F_Operateur ==
    <<"O", "p", "e_ac", "r", "a", "t", "e", "u", "r">>

\* "Description"
F_Description ==
    <<"D", "e", "s", "c", "r", "i", "p", "t", "i", "o", "n">>

\* "Salma OUARDI - Responsable securite"
OP_tour_securite ==
    <<"S", "a", "l", "m", "a", " ", "O", "U", "A", "R", "D", "I", " ", "-", " ", "R", "e", "s",
      "p", "o", "n", "s", "a", "b", "l", "e", " ", "s", "e_ac", "c", "u", "r", "i", "t", "e_ac">>

\* "Pierre Leroy - Coordinateur"
OP_tache_assignee ==
    <<"P", "i", "e", "r", "r", "e", " ", "L", "e", "r", "o", "y", " ", "-", " ", "C", "o", "o",
      "r", "d", "i", "n", "a", "t", "e", "u", "r">>

\* "Jean Dupont - Chef de chantier"
OP_default ==
    <<"J", "e", "a", "n", " ", "D", "u", "p", "o", "n", "t", " ", "-", " ", "C", "h", "e", "f",
      " ", "d", "e", " ", "c", "h", "a", "n", "t", "i", "e", "r">>

\* "RAPPORT D'INCIDENT - Probleme Decouvert"
H_probleme_decouverte ==
    <<"R", "A", "P", "P", "O", "R", "T", " ", "D", "'", "I", "N", "C", "I", "D", "E", "N", "T",
      " ", "-", " ", "P", "r", "o", "b", "l", "e_gr", "m", "e", " ", "D", "e_ac", "c", "o", "u",
      "v", "e", "r", "t">>

\* "RAPPORT DE SECURITE - Tour de Chantier"
H_tour_securite ==
    <<"R", "A", "P", "P", "O", "R", "T", " ", "D", "E", " ", "S", "E_ac", "C", "U", "R", "I", "T",
      "E_ac", " ", "-", " ", "T", "o", "u", "r", " ", "d", "e", " ", "C", "h", "a", "n", "t", "i",
      "e", "r">>

\* "RAPPORT D'AFFECTATION - Tache Assignee"
H_tache_assignee ==
    <<"R", "A", "P", "P", "O", "R", "T", " ", "D", "'", "A", "F", "F", "E", "C", "T", "A", "T",
      "I", "O", "N", " ", "-", " ", "T", "a_ci", "c", "h", "e", " ", "A", "s", "s", "i", "g", "n",
      "e_ac", "e">>

\* "RAPPORT DE CHANTIER - Generique"
H_rapport_generique ==
    <<"R", "A", "P", "P", "O", "R", "T", " ", "D", "E", " ", "C", "H", "A", "N", "T", "I", "E",
      "R", " ", "-", " ", "G", "e_ac", "n", "e_ac", "r", "i", "q", "u", "e">>

\* "RAPPORT DE CHANTIER - "
H_fallback_prefix ==
    <<"R", "A", "P", "P", "O", "R", "T", " ", "D", "E", " ", "C", "H", "A", "N", "T", "I", "E",
      "R", " ", "-", " ">>

\* "Genere le: "
L_genere_le ==
    <<"G", "e_ac", "n", "e_ac", "r", "e_ac", " ", "l", "e", ":", " ">>

\* " a "
L_a ==
    <<" ", "a_gr", " ">>

\* "DETAILS DU RAPPORT"
L_details ==
    <<"D", "E_ac", "T", "A", "I", "L", "S", " ", "D", "U", " ", "R", "A", "P", "P", "O", "R", "T">>

\* "Non renseigne"
L_non_renseigne ==
    <<"N", "o", "n", " ", "r", "e", "n", "s", "e", "i", "g", "n", "e_ac">>

\* "TRANSCRIPTION AUDIO"
L_transcription ==
    <<"T", "R", "A", "N", "S", "C", "R", "I", "P", "T", "I", "O", "N", " ", "A", "U", "D", "I", "O">>

\* "Rapport genere automatiquement par Site Reporter MVP"
L_footer1 ==
    <<"R", "a", "p", "p", "o", "r", "t", " ", "g", "e_ac", "n", "e_ac", "r", "e_ac", " ", "a", "u",
      "t", "o", "m", "a", "t", "i", "q", "u", "e", "m", "e", "n", "t", " ", "p", "a", "r", " ",
      "S", "i", "t", "e", " ", "R", "e", "p", "o", "r", "t", "e", "r", " ", "M", "V", "P">>

\* "Note: La generation PDF sera ajoutee prochainement"
L_footer2 ==
    <<"N", "o", "t", "e", ":", " ", "L", "a", " ", "g", "e_ac", "n", "e_ac", "r", "a", "t", "i",
      "o", "n", " ", "P", "D", "F", " ", "s", "e", "r", "a", " ", "a", "j", "o", "u", "t", "e_ac",
      "e", " ", "p", "r", "o", "c", "h", "a", "i", "n", "e", "m", "e", "n", "t">>

\* "* "
L_bullet ==
    <<"bullet", " ">>

\* ": "
L_colon ==
    <<":", " ">>

\* "(bq)(bq)(bq)json"
FENCE_JSON ==
    <<"bq", "bq", "bq", "j", "s", "o", "n">>

\* "(bq)(bq)(bq)"
FENCE ==
    <<"bq", "bq", "bq">>

\* The words of the first test of the chain
IncidentWords ==
    <<
      \* "probleme"
      <<"p", "r", "o", "b", "l", "e_gr", "m", "e">>,
      \* "problem"
      <<"p", "r", "o", "b", "l", "e", "m">>,
      \* "incident"
      <<"i", "n", "c", "i", "d", "e", "n", "t">>,
      \* "souci"
      <<"s", "o", "u", "c", "i">>,
      \* "defaillance"
      <<"d", "e_ac", "f", "a", "i", "l", "l", "a", "n", "c", "e">>,
      \* "panne"
      <<"p", "a", "n", "n", "e">>,
      \* "fuite"
      <<"f", "u", "i", "t", "e">>,
      \* "casse"
      <<"c", "a", "s", "s", "e">>>>

\* The words of the second test
SafetyWords ==
    <<
      \* "tour"
      <<"t", "o", "u", "r">>,
      \* "securite"
      <<"s", "e_ac", "c", "u", "r", "i", "t", "e_ac">>,
      \* "security"
      <<"s", "e", "c", "u", "r", "i", "t", "y">>,
      \* "inspection"
      <<"i", "n", "s", "p", "e", "c", "t", "i", "o", "n">>,
      \* "vendredi"
      <<"v", "e", "n", "d", "r", "e", "d", "i">>,
      \* "friday"
      <<"f", "r", "i", "d", "a", "y">>,
      \* "fissure"
      <<"f", "i", "s", "s", "u", "r", "e">>,
      \* "beton"
      <<"b", "e_ac", "t", "o", "n">>>>

\* The words of the third test
TaskWords ==
    <<
      \* "tache"
      <<"t", "a_ci", "c", "h", "e">>,
      \* "task"
      <<"t", "a", "s", "k">>,
      \* "assigne"
      <<"a", "s", "s", "i", "g", "n", "e_ac">>,
      \* "assigned"
      <<"a", "s", "s", "i", "g", "n", "e", "d">>,
      \* "mission"
      <<"m", "i", "s", "s", "i", "o", "n">>,
      \* "travail"
      <<"t", "r", "a", "v", "a", "i", "l">>>>

\* The field names of each schema, in insertion order (the descriptions only go into the prompt)
Schema_probleme_decouverte ==
    <<
      F_NomChantier,
      \* "Nom de l'incident"
      <<"N", "o", "m", " ", "d", "e", " ", "l", "'", "i", "n", "c", "i", "d", "e", "n", "t">>,
      F_Emetteur,
      F_DateDecouverte,
      F_HeureDecouverte,
      F_Adresse,
      \* "Nature de l'incident"
      <<"N", "a", "t", "u", "r", "e", " ", "d", "e", " ", "l", "'", "i", "n", "c", "i", "d", "e",
        "n", "t">>,
      \* "Description de l'incident"
      <<"D", "e", "s", "c", "r", "i", "p", "t", "i", "o", "n", " ", "d", "e", " ", "l", "'", "i",
        "n", "c", "i", "d", "e", "n", "t">>,
      \* "Risques identifies"
      <<"R", "i", "s", "q", "u", "e", "s", " ", "i", "d", "e", "n", "t", "i", "f", "i", "e_ac",
        "s">>,
      \* "Actions a realiser"
      <<"A", "c", "t", "i", "o", "n", "s", " ", "a_gr", " ", "r", "e_ac", "a", "l", "i", "s",
        "e", "r">>,
      F_NiveauUrgence,
      F_PersonnesPrevenues>>

\* field_schema of tour_securite
Schema_tour_securite ==
    <<
      F_Date,
      F_Heure,
      F_Operateur,
      \* "Zone inspectee"
      <<"Z", "o", "n", "e", " ", "i", "n", "s", "p", "e", "c", "t", "e_ac", "e">>,
      \* "Observations"
      <<"O", "b", "s", "e", "r", "v", "a", "t", "i", "o", "n", "s">>,
      \* "Non-conformites"
      <<"N", "o", "n", "-", "c", "o", "n", "f", "o", "r", "m", "i", "t", "e_ac", "s">>,
      \* "Actions correctives"
      <<"A", "c", "t", "i", "o", "n", "s", " ", "c", "o", "r", "r", "e", "c", "t", "i", "v", "e",
        "s">>>>

\* field_schema of tache_assignee
Schema_tache_assignee ==
    <<
      F_Date,
      F_Heure,
      F_Operateur,
      \* "Tache"
      <<"T", "a_ci", "c", "h", "e">>,
      \* "Assigne a"
      <<"A", "s", "s", "i", "g", "n", "e_ac", " ", "a_gr">>,
      \* "Echeance"
      <<"E_ac", "c", "h", "e_ac", "a", "n", "c", "e">>,
      \* "Priorite"
      <<"P", "r", "i", "o", "r", "i", "t", "e_ac">>,
      F_Description>>

\* field_schema of rapport_generique
Schema_rapport_generique ==
    <<
      F_Date,
      F_Heure,
      F_Operateur,
      \* "Probleme"
      <<"P", "r", "o", "b", "l", "e_gr", "m", "e">>,
      \* "Domaine"
      <<"D", "o", "m", "a", "i", "n", "e">>,
      \* "Urgence"
      <<"U", "r", "g", "e", "n", "c", "e">>,
      \* "Plan d'action"
      <<"P", "l", "a", "n", " ", "d", "'", "a", "c", "t", "i", "o", "n">>>>

\* field_mapping of generate_incident_docx: template field name -> extracted field name (the same name), in insertion order
FieldMapping ==
    <<
      F_NomChantier,
      \* "Nom de l'incident"
      <<"N", "o", "m", " ", "d", "e", " ", "l", "'", "i", "n", "c", "i", "d", "e", "n", "t">>,
      F_Emetteur,
      F_DateDecouverte,
      F_HeureDecouverte,
      F_Adresse,
      \* "Nature de l'incident"
      <<"N", "a", "t", "u", "r", "e", " ", "d", "e", " ", "l", "'", "i", "n", "c", "i", "d", "e",
        "n", "t">>,
      \* "Description de l'incident"
      <<"D", "e", "s", "c", "r", "i", "p", "t", "i", "o", "n", " ", "d", "e", " ", "l", "'", "i",
        "n", "c", "i", "d", "e", "n", "t">>,
      \* "Risques identifies"
      <<"R", "i", "s", "q", "u", "e", "s", " ", "i", "d", "e", "n", "t", "i", "f", "i", "e_ac",
        "s">>,
      \* "Actions a realiser"
      <<"A", "c", "t", "i", "o", "n", "s", " ", "a_gr", " ", "r", "e_ac", "a", "l", "i", "s",
        "e", "r">>,
      F_NiveauUrgence,
      F_PersonnesPrevenues>>

\* "Avec validation humaine"
MANUAL_MODE ==
    <<"A", "v", "e", "c", " ", "v", "a", "l", "i", "d", "a", "t", "i", "o", "n", " ", "h", "u",
      "m", "a", "i", "n", "e">>

\* "Entierement automatique"
AUTO_MODE ==
    <<"E", "n", "t", "i", "e_gr", "r", "e", "m", "e", "n", "t", " ", "a", "u", "t", "o", "m", "a",
      "t", "i", "q", "u", "e">>


----------------------------------------------------------------------------
(* Python str operations, on sequences of characters.                      *)

\* The letters the model's texts use, in their two cases
UpperChars ==
    <<"A", "B", "C", "D", "E", "F", "G", "H", "I", "J", "K", "L", "M", "N", "O", "P", "Q", "R",
      "S", "T", "U", "V", "W", "X", "Y", "Z", "E_ac", "E_gr", "A_ci", "A_gr">>

LowerChars ==
    <<"a", "b", "c", "d", "e", "f", "g", "h", "i", "j", "k", "l", "m", "n", "o", "p", "q", "r",
      "s", "t", "u", "v", "w", "x", "y", "z", "e_ac", "e_gr", "a_ci", "a_gr">>

\* str.lower()
Lower(s) ==
    [i \in 1..Len(s) |->
        IF \E j \in 1..Len(UpperChars) : UpperChars[j] = s[i]
        THEN LowerChars[CHOOSE j \in 1..Len(UpperChars) : UpperChars[j] = s[i]]
        ELSE s[i]]

\* str.upper()
Upper(s) ==
    [i \in 1..Len(s) |->
        IF \E j \in 1..Len(LowerChars) : LowerChars[j] = s[i]
        THEN UpperChars[CHOOSE j \in 1..Len(LowerChars) : LowerChars[j] = s[i]]
        ELSE s[i]]

\* s.startswith(p)
StartsWith(s, p) == Len(p) <= Len(s) /\ SubSeq(s, 1, Len(p)) = p

\* s.endswith(p)
EndsWith(s, p) == Len(p) <= Len(s) /\ SubSeq(s, Len(s) - Len(p) + 1, Len(s)) = p

\* sub in s
Contains(s, sub) ==
    \E i \in 0..(Len(s) - Len(sub)) : SubSeq(s, i + 1, i + Len(sub)) = sub

\* s[n:]
DropFirst(s, n) == SubSeq(s, n + 1, Len(s))

\* s[:-n]
DropLast(s, n) == SubSeq(s, 1, Len(s) - n)

\* str.strip(): everything between the first and the last non-whitespace character
Strip(s) ==
    LET keep == {i \in 1..Len(s) : s[i] \notin {" ", "\n", "\t"}}
    IN  IF keep = {} THEN <<>>
        ELSE SubSeq(s, CHOOSE i \in keep : \A j \in keep : i <= j,
                       CHOOSE i \in keep : \A j \in keep : j <= i)

\* str.replace(old, new) for a non-empty old: every occurrence, left to right,
\* without overlap
RECURSIVE Replace(_, _, _)
Replace(s, old, new) ==
    IF Len(s) < Len(old) THEN s
    ELSE IF SubSeq(s, 1, Len(old)) = old
         THEN new \o Replace(DropFirst(s, Len(old)), old, new)
         ELSE <<s[1]>> \o Replace(DropFirst(s, 1), old, new)

\* sep.join(parts)
RECURSIVE Join(_, _)
Join(parts, sep) ==
    IF Len(parts) = 0 THEN <<>>
    ELSE IF Len(parts) = 1 THEN parts[1]
    ELSE parts[1] \o sep \o Join(Tail(parts), sep)

\* c * n
Rep(c, n) == [i \in 1..n |-> c]

DigitChars == <<"0", "1", "2", "3", "4", "5", "6", "7", "8", "9">>

\* A natural number in decimal, without padding (strftime %Y for a 4-digit year)
RECURSIVE Decimal(_)
Decimal(n) ==
    IF n < 10 THEN <<DigitChars[n + 1]>> ELSE Decimal(n \div 10) \o <<DigitChars[(n % 10) + 1]>>

\* A number below 100 on two digits (strftime %d, %m, %H, %M)
Pad2(n) == <<DigitChars[(n \div 10) + 1], DigitChars[(n % 10) + 1]>>

----------------------------------------------------------------------------
(* Values.  A JSON value as json.loads returns it, seen through the three  *)
(* things the program does with a field value: test its truth, format it   *)
(* with str(), compare it.  t is its Python type and s its str() text.     *)

JStr(s) == [t |-> "str", s |-> s]

JNull == [t |-> "null", s |-> <<"N", "o", "n", "e">>]

JNum(n) == [t |-> "num", s |-> Decimal(n)]

\* Python truth of a value: "", None, 0, [] and {} are false
Truthy(v) ==
    CASE v.t = "str"  -> v.s # <<>>
      [] v.t = "null" -> FALSE
      [] v.t = "num"  -> v.s # <<"0">>
      [] v.t = "list" -> v.s # <<"[", "]">>
      [] v.t = "obj"  -> v.s # <<"{", "}">>

\* isinstance(v, str)
IsStr(v) == v.t = "str"

(* A Python dict keeps insertion order: a sequence of key/value entries    *)
(* with distinct keys.                                                     *)

Entry(k, v) == [k |-> k, v |-> v]

\* k in d
HasKey(d, k) == \E i \in 1..Len(d) : d[i].k = k

\* d[k], for a key of d
Get(d, k) == d[CHOOSE i \in 1..Len(d) : d[i].k = k].v

\* d[k] = v: in place for a key of d, appended otherwise
SetItem(d, k, v) ==
    IF HasKey(d, k)
    THEN [i \in 1..Len(d) |-> IF d[i].k = k THEN Entry(k, v) ELSE d[i]]
    ELSE Append(d, Entry(k, v))

\* list(d.keys())
Keys(d) == [i \in 1..Len(d) |-> d[i].k]

\* {name: "" for name in names}
RECURSIVE EmptyFields(_)
EmptyFields(names) ==
    IF names = <<>> THEN <<>>
    ELSE <<Entry(Head(names), JStr(<<>>))>> \o EmptyFields(Tail(names))

(* What json.loads can return at the top level: a dict (d), a list         *)
(* (items), a str (s), or a number, null or boolean.                       *)

DocObj(d) == [t |-> "obj", d |-> d, items |-> <<>>, s |-> <<>>]

DocList(items) == [t |-> "list", d |-> <<>>, items |-> items, s |-> <<>>]

DocStr(s) == [t |-> "str", d |-> <<>>, items |-> <<>>, s |-> s]

DocNull == [t |-> "null", d |-> <<>>, items |-> <<>>, s |-> <<>>]

----------------------------------------------------------------------------
(* services/template.py: infer_template                                    *)

\* any(word in normalized for word in words)
AnyWordIn(words, normalized) == \E i \in 1..Len(words) : Contains(normalized, words[i])

\* A faulty chain: the task words are tested before the incident words
SelectTemplate_taskFirst(transcript) ==
    LET normalized == Lower(transcript)
    IN  IF AnyWordIn(TaskWords, normalized)
        THEN [template |-> T_tache_assignee, field_schema |-> Schema_tache_assignee]
        ELSE IF AnyWordIn(IncidentWords, normalized)
        THEN [template |-> T_probleme_decouverte, field_schema |-> Schema_probleme_decouverte]
        ELSE IF AnyWordIn(SafetyWords, normalized)
        THEN [template |-> T_tour_securite, field_schema |-> Schema_tour_securite]
        ELSE [template |-> T_rapport_generique, field_schema |-> Schema_rapport_generique]

\* A faulty chain: the transcript is matched as written, not lower-cased
SelectTemplate_caseSensitive(transcript) ==
    IF AnyWordIn(IncidentWords, transcript)
    THEN [template |-> T_probleme_decouverte, field_schema |-> Schema_probleme_decouverte]
    ELSE IF AnyWordIn(SafetyWords, transcript)
    THEN [template |-> T_tour_securite, field_schema |-> Schema_tour_securite]
    ELSE IF AnyWordIn(TaskWords, transcript)
    THEN [template |-> T_tache_assignee, field_schema |-> Schema_tache_assignee]
    ELSE [template |-> T_rapport_generique, field_schema |-> Schema_rapport_generique]

\* The if/elif chain: the template and its schema
SelectTemplate(transcript) ==
    LET normalized == Lower(transcript)
    IN  IF AnyWordIn(IncidentWords, normalized)
        THEN [template |-> T_probleme_decouverte, field_schema |-> Schema_probleme_decouverte]
        ELSE IF AnyWordIn(SafetyWords, normalized)
        THEN [template |-> T_tour_securite, field_schema |-> Schema_tour_securite]
        ELSE IF AnyWordIn(TaskWords, normalized)
        THEN [template |-> T_tache_assignee, field_schema |-> Schema_tache_assignee]
        ELSE [template |-> T_rapport_generique, field_schema |-> Schema_rapport_generique]

\* A faulty cleaning: a closing fence is left in place
CleanResponse_openingOnly(llm_response) ==
    LET c0 == Strip(llm_response)
        c1 == IF StartsWith(c0, FENCE_JSON) THEN DropFirst(c0, 7) ELSE c0
        c2 == IF StartsWith(c1, FENCE) THEN DropFirst(c1, 3) ELSE c1
    IN  Strip(c2)

\* The four stripping steps on the model's answer
CleanResponse(llm_response) ==
    LET c0 == Strip(llm_response)
        c1 == IF StartsWith(c0, FENCE_JSON) THEN DropFirst(c0, 7) ELSE c0
        c2 == IF StartsWith(c1, FENCE) THEN DropFirst(c1, 3) ELSE c1
        c3 == IF EndsWith(c2, FENCE) THEN DropLast(c2, 3) ELSE c2
    IN  Strip(c3)

\* The character that stands for the serialised JSON document of an answer
JsonChar == "<json>"

\* json.loads: the text parses when it is exactly one JSON document
JsonLoads(cleaned, doc) ==
    IF cleaned = <<JsonChar>> THEN [raised |-> FALSE, value |-> doc]
    ELSE [raised |-> TRUE, value |-> DocNull]

\* name in fields, for the types that support it (a dict, a list, a str)
PyIn(name, fields) ==
    CASE fields.t = "obj"  -> HasKey(fields.d, name)
      [] fields.t = "list" -> \E i \in 1..Len(fields.items) : fields.items[i] = JStr(name)
      [] fields.t = "str"  -> Contains(fields.s, name)
      [] OTHER -> FALSE

\* Whether `name in fields` raises TypeError (a number, null)
InRaises(fields) == fields.t \notin {"obj", "list", "str"}

\* A faulty loop: missing names are left out
FillMissing_skip(fields, names) == [raised |-> InRaises(fields), fields |-> fields]

\* The loop over field_schema.keys(): a missing name is set to ""; `in` or the
\* item assignment raises TypeError on what is not a dict
RECURSIVE FillMissing(_, _)
FillMissing(fields, names) ==
    IF names = <<>> THEN [raised |-> FALSE, fields |-> fields]
    ELSE IF InRaises(fields) THEN [raised |-> TRUE, fields |-> fields]
    ELSE IF PyIn(Head(names), fields) THEN FillMissing(fields, Tail(names))
    ELSE IF fields.t = "obj"
         THEN FillMissing(DocObj(SetItem(fields.d, Head(names), JStr(<<>>))), Tail(names))
         ELSE [raised |-> TRUE, fields |-> fields]

\* The operator name of the except branch
DefaultOperator(template) ==
    IF template = T_tour_securite THEN OP_tour_securite
    ELSE IF template = T_tache_assignee THEN OP_tache_assignee
    ELSE OP_default

\* A faulty except branch: no field at all
FallbackFields_none(template, field_schema) == <<>>

\* The except branch: all fields empty, the operator defaulted
FallbackFields(template, field_schema) ==
    LET empty == EmptyFields(field_schema)
    IN  IF HasKey(empty, F_Operateur) /\ ~Truthy(Get(empty, F_Operateur))
        THEN SetItem(empty, F_Operateur, JStr(DefaultOperator(template)))
        ELSE empty

\* A faulty format: the month first
StrftimeDate_monthFirst(now) ==
    Pad2(now.month) \o <<"/">> \o Pad2(now.day) \o <<"/">> \o Decimal(now.year)

\* now.strftime("%d/%m/%Y")
StrftimeDate(now) == Pad2(now.day) \o <<"/">> \o Pad2(now.month) \o <<"/">> \o Decimal(now.year)

\* now.strftime("%H:%M")
StrftimeTime(now) == Pad2(now.hour) \o <<":">> \o Pad2(now.minute)

\* A faulty statement: the value is overwritten whether it is empty or not
AutoFill_always(state, name, text) ==
    IF state.raised \/ ~PyIn(name, state.fields) THEN state
    ELSE IF state.fields.t # "obj" THEN [raised |-> TRUE, fields |-> state.fields]
    ELSE [raised |-> FALSE, fields |-> DocObj(SetItem(state.fields.d, name, JStr(text)))]

\* One `if name in fields and not fields[name]: fields[name] = text` statement;
\* fields[name] raises TypeError on a list or a str
AutoFill(state, name, text) ==
    IF state.raised \/ ~PyIn(name, state.fields) THEN state
    ELSE IF state.fields.t # "obj" THEN [raised |-> TRUE, fields |-> state.fields]
    ELSE IF ~Truthy(Get(state.fields.d, name))
         THEN [raised |-> FALSE, fields |-> DocObj(SetItem(state.fields.d, name, JStr(text)))]
         ELSE state

\* The four date and time statements, in order
AutoFillDateTime(fields, now) ==
    AutoFill(AutoFill(AutoFill(AutoFill([raised |-> FALSE, fields |-> fields],
        F_DateDecouverte, StrftimeDate(now)),
        F_HeureDecouverte, StrftimeTime(now)),
        F_Date, StrftimeDate(now)),
        F_Heure, StrftimeTime(now))

\* The try block after the await: clean, parse, fill; TRUE in raised when it
\* ends in the except branch
Extract(llm, field_schema) ==
    IF llm.raised THEN [raised |-> TRUE, fields |-> DocNull]
    ELSE LET parsed == JsonLoads(CleanResponse(llm.text), llm.doc)
         IN  IF parsed.raised THEN [raised |-> TRUE, fields |-> DocNull]
             ELSE FillMissing(parsed.value, field_schema)

----------------------------------------------------------------------------
(* services/report.py: generate_report                                     *)

\* The width of the banner's rules
RuleWidth == 60

\* An Optional[str]: None, or a str
None == [some |-> FALSE, s |-> <<>>]

Some(s) == [some |-> TRUE, s |-> s]

\* TEMPLATE_HEADERS.get(template_type, f"RAPPORT DE CHANTIER - {template_type.upper()}")
TemplateHeader(template_type) ==
    IF template_type = T_probleme_decouverte THEN H_probleme_decouverte
    ELSE IF template_type = T_tour_securite THEN H_tour_securite
    ELSE IF template_type = T_tache_assignee THEN H_tache_assignee
    ELSE IF template_type = T_rapport_generique THEN H_rapport_generique
    ELSE H_fallback_prefix \o Upper(template_type)

\* now.strftime("%d/%m/%Y a %H:%M")
StrftimeStamp(now) == StrftimeDate(now) \o L_a \o StrftimeTime(now)

\* A faulty line: an empty value is written as it is
FieldLine_noSentinel(e) == L_bullet \o e.k \o L_colon \o e.v.s

\* The line of one field: the value, or the sentinel for a false value
FieldLine(e) == L_bullet \o e.k \o L_colon \o (IF Truthy(e.v) THEN e.v.s ELSE L_non_renseigne)

\* The lines generate_report builds, before they are joined
ReportLines(template_type, fields, transcript, now) ==
    LET eq == Rep("=", RuleWidth)
        hl == Rep("hline", RuleWidth)
    IN  <<eq, TemplateHeader(template_type), eq, L_genere_le \o StrftimeStamp(now), <<>>,
          hl, L_details, hl, <<>>>>
        \o [i \in 1..Len(fields) |-> FieldLine(fields[i])]
        \o (IF transcript.some /\ transcript.s # <<>>
            THEN <<<<>>, hl, L_transcription, hl, <<>>, transcript.s, <<>>>>
            ELSE <<>>)
        \o <<<<>>, hl, L_footer1, L_footer2, hl>>

\* A faulty renderer: the transcript is cut after three characters
GenerateReport_truncated(template_type, fields, transcript, now) ==
    Join(ReportLines(template_type, fields,
                     [transcript EXCEPT !.s = SubSeq(@, 1, IF Len(@) < 3 THEN Len(@) ELSE 3)],
                     now), <<"\n">>)

GenerateReport(template_type, fields, transcript, now) ==
    Join(ReportLines(template_type, fields, transcript, now), <<"\n">>)

----------------------------------------------------------------------------
(* services/docx_generator.py: generate_incident_docx.  A document is the  *)
(* sequence of its table rows, in the order doc.tables and table.rows give *)
(* them; a row is the sequence of the texts of its cells.                  *)

\* f"{{{field}}}"
BraceToken(field) == <<"{">> \o field \o <<"}">>

\* f"[{field}]"
BracketToken(field) == <<"[">> \o field \o <<"]">>

\* fields.get(name, ""), the text of the value
GetText(fields, name) == IF HasKey(fields, name) THEN Get(fields, name).s ELSE <<>>

\* _strip_placeholder
StripPlaceholder(text, field) ==
    Strip(Replace(Replace(text, BraceToken(field), <<>>), BracketToken(field), <<>>))

\* _replace_generic_placeholders: the loop over field_mapping, from entry i on
RECURSIVE ReplaceGenericFrom(_, _, _)
ReplaceGenericFrom(text, fields, i) ==
    IF i > Len(FieldMapping) THEN text
    ELSE ReplaceGenericFrom(
             Replace(Replace(text, BraceToken(FieldMapping[i]), GetText(fields, FieldMapping[i])),
                     BracketToken(FieldMapping[i]), GetText(fields, FieldMapping[i])),
             fields, i + 1)

\* A faulty sweep: the tokens in brackets are left alone
ReplaceGenericPlaceholders_bracesOnly(text, fields) ==
    LET RECURSIVE From(_, _)
        From(t, i) ==
            IF i > Len(FieldMapping) THEN t
            ELSE From(Replace(t, BraceToken(FieldMapping[i]), GetText(fields, FieldMapping[i])),
                      i + 1)
    IN  From(text, 1)

ReplaceGenericPlaceholders(text, fields) == ReplaceGenericFrom(text, fields, 1)

\* A faulty normalisation: the label keeps its capitals
NormalizeLabel_noLower(text) == Strip(Replace(text, <<":">>, <<>>))

\* _normalize_label
NormalizeLabel(text) == Lower(Strip(Replace(text, <<":">>, <<>>)))

\* The two tests of the loop body for one template field: by the label or a
\* token in the left cell, or by a token in the right cell
RowMatches(left, right, field) ==
    \/ Contains(NormalizeLabel(left), Lower(field))
    \/ Contains(left, BraceToken(field))
    \/ Contains(left, BracketToken(field))
    \/ Contains(right, BraceToken(field))
    \/ Contains(right, BracketToken(field))

\* A faulty loop: it does not stop at the first match, the last match fills
\* the row
FillRow_lastMatch(cells, fields) ==
    LET hits == IF Len(cells) >= 2
                THEN {i \in 1..Len(FieldMapping) : RowMatches(cells[1], cells[2], FieldMapping[i])}
                ELSE {}
    IN  IF hits # {}
        THEN LET field == FieldMapping[CHOOSE i \in hits : \A j \in hits : i >= j]
             IN  [c \in 1..Len(cells) |->
                    IF c = 1 THEN StripPlaceholder(cells[1], field)
                    ELSE IF c = 2 THEN GetText(fields, field)
                    ELSE cells[c]]
        ELSE [c \in 1..Len(cells) |-> ReplaceGenericPlaceholders(cells[c], fields)]

\* A faulty loop: the value cell of a field the map lacks is left as it is
FillRow_keepAbsent(cells, fields) ==
    LET hits == IF Len(cells) >= 2
                THEN {i \in 1..Len(FieldMapping) : RowMatches(cells[1], cells[2], FieldMapping[i])}
                ELSE {}
    IN  IF hits # {}
        THEN LET field == FieldMapping[CHOOSE i \in hits : \A j \in hits : i <= j]
             IN  [c \in 1..Len(cells) |->
                    IF c = 1 THEN StripPlaceholder(cells[1], field)
                    ELSE IF c = 2 THEN (IF HasKey(fields, field) THEN GetText(fields, field)
                                        ELSE cells[2])
                    ELSE cells[c]]
        ELSE [c \in 1..Len(cells) |-> ReplaceGenericPlaceholders(cells[c], fields)]

\* One row: the first matching field of the mapping fills the row (the label
\* cell loses that field's tokens, the value cell gets the value); a row
\* without match, or with one cell, has the tokens of every cell replaced
FillRow(cells, fields) ==
    LET hits == IF Len(cells) >= 2
                THEN {i \in 1..Len(FieldMapping) : RowMatches(cells[1], cells[2], FieldMapping[i])}
                ELSE {}
    IN  IF hits # {}
        THEN LET field == FieldMapping[CHOOSE i \in hits : \A j \in hits : i <= j]
             IN  [c \in 1..Len(cells) |->
                    IF c = 1 THEN StripPlaceholder(cells[1], field)
                    ELSE IF c = 2 THEN GetText(fields, field)
                    ELSE cells[c]]
        ELSE [c \in 1..Len(cells) |-> ReplaceGenericPlaceholders(cells[c], fields)]

\* generate_incident_docx: every row of every table (the styling pass and the
\* serialisation leave the texts alone)
GenerateIncidentDocx(fields, rows) == [r \in 1..Len(rows) |-> FillRow(rows[r], fields)]

----------------------------------------------------------------------------
(* services/llm.py and services/stt.py: the two outbound calls             *)

\* chat_completion after the await: the content, or an exception (an API
\* error, no choices, no content)
ChatCompletion(api) ==
    IF api.kind = "content" /\ api.raw # <<>>
    THEN [raised |-> FALSE, text |-> api.raw, doc |-> api.doc]
    ELSE [raised |-> TRUE, text |-> <<>>, doc |-> DocNull]

\* A faulty client: an error of the endpoint is taken for an empty text
TranscribeResult_neverRaises(stt) == [raised |-> FALSE, text |-> stt.text]

\* transcribe_audio after the await: the text, or an exception (an API
\* error, an answer without text)
TranscribeResult(stt) ==
    IF stt.kind = "text" /\ stt.text # <<>>
    THEN [raised |-> FALSE, text |-> stt.text]
    ELSE [raised |-> TRUE, text |-> <<>>]

----------------------------------------------------------------------------
(* models/schemas.py: the request and response models                      *)

\* Dict[str, str] as pydantic validates it: every value a str
ValidStrDict(d) == \A i \in 1..Len(d) : IsStr(d[i].v)

\* DocxDownloadRequest is imported by the router and not defined in
\* models/schemas.py; the handler and the frontend client use its fields map
NoPayload ==
    [audio_b64 |-> "", transcript |-> None, template_type |-> <<>>, fields |-> <<>>]

NoResponse ==
    [status |-> 0, detail |-> "", text |-> <<>>, template_type |-> <<>>, fields |-> <<>>,
     report_text |-> <<>>, docx |-> <<>>, filename |-> <<>>, cause |-> ""]

HTTP_200_OK == 200

HTTP_400_BAD_REQUEST == 400

HTTP_500_INTERNAL_SERVER_ERROR == 500

\* An HTTPException, or an exception no handler catches (a 500)
ErrorResponse(status, detail) == [NoResponse EXCEPT !.status = status, !.detail = detail]

TranscriptionResponse(text) == [NoResponse EXCEPT !.status = HTTP_200_OK, !.text = text]

\* The response models validate fields as Dict[str, str]; a failed validation
\* is an exception in the handler
TemplateInferenceResponse(template_type, fields) ==
    IF ValidStrDict(fields)
    THEN [NoResponse EXCEPT !.status = HTTP_200_OK, !.template_type = template_type,
                            !.fields = fields]
    ELSE ErrorResponse(HTTP_500_INTERNAL_SERVER_ERROR, "validation")

ReportGenerationResponse(report_text) ==
    [NoResponse EXCEPT !.status = HTTP_200_OK, !.report_text = report_text]

\* A faulty response: the transcript is not returned
AutoPipelineResponse_noText(text, template_type, fields, report_text) ==
    [NoResponse EXCEPT !.status = HTTP_200_OK, !.template_type = template_type,
                       !.fields = fields, !.report_text = report_text]

AutoPipelineResponse(text, template_type, fields, report_text) ==
    IF ValidStrDict(fields)
    THEN [NoResponse EXCEPT !.status = HTTP_200_OK, !.text = text,
                            !.template_type = template_type, !.fields = fields,
                            !.report_text = report_text]
    ELSE ErrorResponse(HTTP_500_INTERNAL_SERVER_ERROR, "validation")

\* The StreamingResponse of the DOCX download: the document and its file name
DocxResponse(docx, filename) ==
    [NoResponse EXCEPT !.status = HTTP_200_OK, !.docx = docx, !.filename = filename]


----------------------------------------------------------------------------
(* The inputs the model draws from.                                        *)

\* Transcripts: the spec's scenario, a keyword of each set, two sets at once,
\* no keyword, padding, nothing
TR_scenario ==
    <<"F", "u", "i", "t", "e", " ", "d", "'", "e", "a", "u", " ", "d", "e_ac", "t", "e", "c",
      "t", "e_ac", "e", " ", "a", "u", " ", "s", "o", "u", "s", "-", "s", "o", "l">>

TR_generic == <<"b", "o", "n", "j", "o", "u", "r">>

TR_blank == <<" ", "\n">>

Transcripts ==
    {TR_scenario,
     <<"P", "a", "n", "n", "e", ",", " ", "m", "i", "s", "s", "i", "o", "n">>,
     <<"T", "o", "u", "r">>,
     <<" ", "t", "a", "s", "k", "\n">>,
     TR_generic, TR_blank, <<>>}

\* The vocabulary of the wide transcript set: every keyword, capitals, a word
\* that holds a keyword inside, words without keyword
Vocabulary ==
    {IncidentWords[i] : i \in 1..Len(IncidentWords)}
    \cup {SafetyWords[i] : i \in 1..Len(SafetyWords)}
    \cup {TaskWords[i] : i \in 1..Len(TaskWords)}
    \cup {Upper(IncidentWords[1]), Upper(TaskWords[1]), <<"a", "u">> \o SafetyWords[1], TR_generic,
          <<"t", "a", "c", "h", "e">>}

\* The most words a wide transcript has
MaxWords == 2

WideTranscripts ==
    {Join(ws, <<" ">>) : ws \in UNION {[1..n -> Vocabulary] : n \in 0..MaxWords}}

\* Clock readings
Nows ==
    {[day |-> 5, month |-> 11, year |-> 2026, hour |-> 9, minute |-> 7],
     [day |-> 31, month |-> 12, year |-> 2025, hour |-> 23, minute |-> 59]}

\* The values an answer of the model may hold under a field name
V_text == JStr(<<"v">>)

V_lines == JStr(<<"a", "\n", "b">>)

V_empty == JStr(<<>>)

ValueOptions ==
    {V_empty, V_text, V_lines, JNull, JNum(0), JNum(5), [t |-> "list", s |-> <<"[", "1", "]">>],
     [t |-> "obj", s |-> <<"{", "}">>]}

\* A key no schema has
F_Extra == <<"E", "x", "t", "r", "a">>

\* {name: v for name in names}
AllSame(names, v) == [i \in 1..Len(names) |-> Entry(names[i], v)]

\* The JSON documents an answer may be, for a schema
Docs(names) ==
    {DocObj(AllSame(names, v)) : v \in ValueOptions}
    \cup {DocObj(<<Entry(k, v)>>) :
            k \in {names[1], names[2], names[3], names[Len(names)], F_Date, F_Extra},
            v \in {V_text, V_empty, JNull}}
    \cup {DocObj(AllSame([i \in 1..Len(names) |-> names[Len(names) + 1 - i]], V_text)),
          DocObj(<<Entry(F_Extra, V_text)>> \o AllSame(names, V_text)),
          DocObj(<<>>),
          DocList([i \in 1..Len(names) |-> JStr(names[i])]), DocList(<<>>), DocList(<<JNum(5)>>),
          DocStr(Join(names, <<" ">>)), DocStr(<<"a", "b", "c">>),
          [t |-> "num", d |-> <<>>, items |-> <<>>, s |-> <<"5">>], DocNull}

\* The texts around the document: bare, fenced with and without "json",
\* padded, preceded by prose, an opening fence only, a closing fence only,
\* blanks before the opening fence
Wrappings ==
    {<<JsonChar>>,
     FENCE_JSON \o <<"\n", JsonChar, "\n">> \o FENCE,
     FENCE \o <<JsonChar>> \o FENCE \o <<"\n">>,
     <<" ", JsonChar, "\n">>,
     <<"x", " ", JsonChar>>,
     FENCE_JSON \o <<" ", JsonChar>>,
     <<JsonChar, "\n">> \o FENCE \o <<" ">>,
     <<"\n", " ">> \o FENCE \o <<"\n", JsonChar, " ">> \o FENCE}

ApiError == [kind |-> "error", raw |-> <<>>, doc |-> DocNull]

\* What the chat-completion endpoint may answer, for a schema
ApiOutcomes(names) ==
    {ApiError,
     [kind |-> "no_choices", raw |-> <<>>, doc |-> DocNull],
     [kind |-> "content", raw |-> <<>>, doc |-> DocNull],
     [kind |-> "content", raw |-> <<"x">>, doc |-> DocNull]}
    \cup {[kind |-> "content", raw |-> w, doc |-> d] : w \in Wrappings, d \in Docs(names)}

\* What the transcription endpoint may answer
SttOutcomes ==
    {[kind |-> "error", text |-> <<>>]} \cup {[kind |-> "text", text |-> t] : t \in Transcripts}

\* Field maps of report and DOCX requests (validated: every value a str)
FM_incident ==
    <<Entry(F_DateDecouverte, V_empty), Entry(F_Adresse, V_text), Entry(F_NomChantier, V_text)>>

\* No field, an address, an empty value, a value and a key of two lines
FieldMaps ==
    {<<>>,
     <<Entry(F_Adresse, JStr(<<"1", "2", " ", "R", "u", "e", " ", "X">>))>>,
     FM_incident,
     <<Entry(F_Description, V_lines), Entry(F_Date, V_text)>>,
     <<Entry(<<"k", "\n", "k">>, V_text)>>}

TemplateTypes ==
    {T_probleme_decouverte, T_tour_securite, T_tache_assignee, T_rapport_generique,
     <<"c", "u", "s", "t", "o", "m">>}

OptionalTranscripts == {None, Some(<<>>), Some(TR_generic), Some(V_lines.s)}

\* The template file of the DOCX download: absent, unreadable (Document()
\* raises), or a document; error is the message of the exception that
\* generate_incident_docx raises on it, "" when it raises none
NoFile == [exists |-> FALSE, error |-> "", rows |-> <<>>]

BadFile == [exists |-> TRUE, error |-> "Package not found", rows |-> <<>>]

DocFile(rows) == [exists |-> TRUE, error |-> "", rows |-> rows]

\* "Adresse:" beside an empty cell (the spec's scenario), a heading row, a
\* value cell holding the field's token
Doc_labels ==
    <<<<F_Adresse \o <<":">>, <<>>>>,
      <<<<"I", "n", "f", "o">>>>,
      <<F_NomChantier, BraceToken(F_NomChantier)>>>>

\* Tokens in the label cell, in the value cell of an unlabelled row, and in a
\* heading row
Doc_tokens ==
    <<<<BracketToken(F_Adresse) \o <<" ", ":">>, <<"x">>>>,
      <<<<"L", "i", "e", "u">>, BracketToken(F_Adresse)>>,
      <<<<"A", " ">> \o BraceToken(F_Adresse) \o <<" ">> \o BracketToken(F_NomChantier)>>>>

\* The last: a document whose saving fails
TemplateFiles ==
    {NoFile, BadFile, DocFile(Doc_labels), DocFile(Doc_tokens),
     [DocFile(Doc_labels) EXCEPT !.error = "write error"]}

\* The texts of the cells of the wide template rows: the scenario's label, an
\* empty cell, a label in capitals with blanks around, a token of the first
\* field of the mapping, a token in brackets, two tokens in a text, a token
\* inside a token
CellTexts ==
    {F_Adresse \o <<":">>,
     <<>>,
     <<" ">> \o Upper(F_Adresse) \o <<" ", ":", " ">>,
     BraceToken(F_NomChantier),
     BracketToken(F_Adresse),
     <<"A", " ">> \o BraceToken(F_Adresse) \o <<" ">> \o BracketToken(F_NomChantier),
     <<"{">> \o F_Adresse \o BracketToken(F_NomChantier) \o <<"}">>}

\* The most cells a wide template row has
MaxCells == 3
----------------------------------------------------------------------------
(* routers/pipeline.py: the handlers, one request at a time.  A handler    *)
(* that awaits an outbound call is cut at the await.                       *)

VARIABLES
    pc,          \* "idle", "stt" (awaiting transcription), "llm" (awaiting chat completion), "done"
    route,       \* the handler serving the request
    payload,     \* the request
    text,        \* the transcript infer_template was called with
    choice,      \* the template and schema infer_template chose
    result,      \* what infer_template returned, or that it raised
    response,    \* the response of the request
    sttCalls,    \* outbound transcription calls of the request
    llmCalls,    \* outbound chat-completion calls of the request
    rendered,    \* calls of generate_report of the request
    docxOpened,  \* times the request opened the DOCX template
    answer,      \* what the chat-completion endpoint answered
    heard,       \* what the transcription endpoint answered
    renderedAt,  \* what datetime.now() gave generate_report
    templateFile, \* the template file the DOCX download found
    previous,    \* the rendering of the request before, when it is remembered
    inflight,    \* the requests in flight at once: for each, its handler's locals
    settings,    \* the cache of get_settings
    session_state, \* st.session_state of the browser session
    lastReset    \* the last run of reset_workflow: the session before and after it

\* The variables of the server that takes one request at a time
single ==
    <<pc, route, payload, text, choice, result, response, sttCalls, llmCalls, rendered,
      docxOpened, answer, heard, renderedAt, templateFile, previous>>

vars == <<single, inflight, settings, session_state, lastReset>>

NoHeard == [kind |-> "none", text |-> <<>>]

NoNow == [day |-> 0, month |-> 0, year |-> 0, hour |-> 0, minute |-> 0]

NoPrevious ==
    [some |-> FALSE, template_type |-> <<>>, fields |-> <<>>, transcript |-> None,
     now |-> NoNow, report_text |-> <<>>]

NoChoice == [template |-> <<>>, field_schema |-> <<>>]

NoResult ==
    [state |-> "none", template |-> <<>>, fields |-> DocNull, extracted |-> DocNull,
     fellBack |-> FALSE, now |-> CHOOSE n \in Nows : TRUE]

\* The most requests in flight at once
MaxRequests == 2

Requests == 1..MaxRequests

\* The locals of a handler that serves no request
NoRequest ==
    [pc |-> "idle", route |-> "none", payload |-> NoPayload, asked |-> None,
     language |-> <<>>, text |-> <<>>, choice |-> NoChoice, heard |-> NoHeard,
     answer |-> ApiError, now |-> NoNow, response |-> NoResponse]

\* Settings() as the environment gives it
Settings == [default_language |-> <<"f", "r">>]

\* init_state: setdefault of every key the page relies on; a key the session
\* already holds keeps its value
InitState(state) ==
    state @@ [mode |-> MANUAL_MODE, transcript |-> <<>>,
              template_type |-> T_probleme_decouverte, fields |-> <<>>, report_text |-> <<>>,
              audio_bytes |-> None, transcript_editor |-> <<>>]

Init ==
    /\ pc = "idle"
    /\ route = "none"
    /\ payload = NoPayload
    /\ text = <<>>
    /\ choice = NoChoice
    /\ result = NoResult
    /\ response = NoResponse
    /\ sttCalls = 0
    /\ llmCalls = 0
    /\ rendered = 0
    /\ docxOpened = 0
    /\ answer = ApiError
    /\ heard = NoHeard
    /\ renderedAt = NoNow
    /\ templateFile = NoFile
    /\ previous = NoPrevious
    /\ inflight = [r \in Requests |-> NoRequest]
    /\ settings = [cached |-> FALSE, value |-> [default_language |-> <<>>]]
    /\ session_state = ("record_audio" :> None) @@ InitState(<<>>)
    /\ lastReset = [some |-> FALSE, before |-> <<>>, after |-> <<>>]

\* infer_template up to its await: the template is chosen, the prompt built,
\* the chat-completion call issued
InferTemplateCall(transcript) ==
    /\ text' = transcript
    /\ choice' = SelectTemplate(transcript)
    /\ llmCalls' = llmCalls + 1
    /\ pc' = "llm"

\* A faulty handler: the transcript is tested for emptiness without strip()
InferTemplateRoute_noStrip(transcripts) ==
    /\ pc = "idle"
    /\ \E t \in transcripts :
        /\ route' = "template"
        /\ payload' = [NoPayload EXCEPT !.transcript = Some(t)]
        /\ IF t = <<>>
           THEN /\ response' = ErrorResponse(HTTP_400_BAD_REQUEST, "Transcript cannot be empty.")
                /\ pc' = "done"
                /\ UNCHANGED <<text, choice, llmCalls>>
           ELSE /\ InferTemplateCall(t)
                /\ UNCHANGED response
    /\ UNCHANGED <<result, sttCalls, rendered, docxOpened, answer, heard, renderedAt,
                   templateFile, previous, inflight, settings, session_state, lastReset>>

\* POST /api/report/template up to the await
InferTemplateRoute(transcripts) ==
    /\ pc = "idle"
    /\ \E t \in transcripts :
        LET transcript == Strip(t)
        IN  /\ route' = "template"
            /\ payload' = [NoPayload EXCEPT !.transcript = Some(t)]
            /\ IF transcript = <<>>
               THEN /\ response' = ErrorResponse(HTTP_400_BAD_REQUEST, "Transcript cannot be empty.")
                    /\ pc' = "done"
                    /\ UNCHANGED <<text, choice, llmCalls>>
               ELSE /\ InferTemplateCall(transcript)
                    /\ UNCHANGED response
    /\ UNCHANGED <<result, sttCalls, rendered, docxOpened, answer, heard, renderedAt,
                   templateFile, previous, inflight, settings, session_state, lastReset>>

\* A faulty client: the transcription request is issued twice
TranscribeCall_twice(audio_b64) ==
    /\ sttCalls' = sttCalls + 2
    /\ pc' = "stt"
    /\ UNCHANGED response

\* transcribe_audio up to its await: the audio is decoded (b64decode raises on
\* bad padding), the transcription call issued
TranscribeCall(audio_b64) ==
    IF audio_b64 = "bad padding"
    THEN /\ response' = ErrorResponse(HTTP_500_INTERNAL_SERVER_ERROR, "exception")
         /\ pc' = "done"
         /\ UNCHANGED sttCalls
    ELSE /\ sttCalls' = sttCalls + 1
         /\ pc' = "stt"
         /\ UNCHANGED response

\* POST /api/transcribe up to the await
Transcribe ==
    /\ pc = "idle"
    /\ \E a \in {"audio", "bad padding"} :
        /\ route' = "transcribe"
        /\ payload' = [NoPayload EXCEPT !.audio_b64 = a]
        /\ TranscribeCall(a)
    /\ UNCHANGED <<text, choice, result, llmCalls, rendered, docxOpened, answer, heard,
                   renderedAt, templateFile, previous, inflight, settings, session_state,
                   lastReset>>

\* POST /api/pipeline/auto up to the first await
AutoPipeline ==
    /\ pc = "idle"
    /\ \E a \in {"audio", "bad padding"} :
        /\ route' = "auto"
        /\ payload' = [NoPayload EXCEPT !.audio_b64 = a]
        /\ TranscribeCall(a)
    /\ UNCHANGED <<text, choice, result, llmCalls, rendered, docxOpened, answer, heard,
                   renderedAt, templateFile, previous, inflight, settings, session_state,
                   lastReset>>

\* The transcription call returns: transcribe_audio ends; /api/transcribe
\* answers, the auto pipeline goes on into infer_template
SttReturn ==
    /\ pc = "stt"
    /\ \E stt \in SttOutcomes :
        LET r == TranscribeResult(stt)
        IN  /\ heard' = stt
            /\ IF r.raised
               THEN /\ response' = ErrorResponse(HTTP_500_INTERNAL_SERVER_ERROR, "exception")
                    /\ pc' = "done"
                    /\ UNCHANGED <<text, choice, llmCalls>>
               ELSE IF route = "transcribe"
               THEN /\ response' = TranscriptionResponse(r.text)
                    /\ pc' = "done"
                    /\ UNCHANGED <<text, choice, llmCalls>>
               ELSE /\ InferTemplateCall(r.text)
                    /\ UNCHANGED response
    /\ UNCHANGED <<route, payload, result, sttCalls, rendered, docxOpened, answer, renderedAt,
                   templateFile, previous, inflight, settings, session_state, lastReset>>

\* The chat-completion call returns: infer_template goes on to its end (the try
\* block, the except branch when it raised, the date and time statements);
\* /api/report/template answers, the auto pipeline renders the report and answers
LlmReturn(kinds, nows) ==
    /\ pc = "llm"
    /\ \E api \in {a \in ApiOutcomes(choice.field_schema) : a.kind \in kinds}, now \in nows :
       \E tried \in {Extract(ChatCompletion(api), choice.field_schema)} :
       \E fields \in {IF tried.raised
                      THEN DocObj(FallbackFields(choice.template, choice.field_schema))
                      ELSE tried.fields} :
       \E filled \in {AutoFillDateTime(fields, now)} :
        /\ answer' = api
        /\ result' = [state |-> IF filled.raised THEN "raised" ELSE "returned",
                      template |-> choice.template, fields |-> filled.fields,
                      extracted |-> fields, fellBack |-> tried.raised, now |-> now]
        /\ IF filled.raised
           THEN /\ response' = ErrorResponse(HTTP_500_INTERNAL_SERVER_ERROR, "exception")
                /\ UNCHANGED <<rendered, renderedAt>>
           ELSE IF route = "template"
           THEN /\ response' = TemplateInferenceResponse(choice.template, filled.fields.d)
                /\ UNCHANGED <<rendered, renderedAt>>
           ELSE \E later \in nows :
                /\ rendered' = rendered + 1
                /\ renderedAt' = later
                /\ response' = AutoPipelineResponse(text, choice.template, filled.fields.d,
                                   GenerateReport(choice.template, filled.fields.d, Some(text),
                                                  later))
    /\ pc' = "done"
    /\ UNCHANGED <<route, payload, text, choice, sttCalls, llmCalls, docxOpened, heard,
                   templateFile, previous, inflight, settings, session_state, lastReset>>

\* A faulty renderer: the header is kept from the call before
GenerateReportRoute_keptHeader ==
    /\ pc = "idle"
    /\ \E tt \in TemplateTypes, fm \in FieldMaps, tr \in OptionalTranscripts, now \in Nows :
        /\ route' = "generate"
        /\ payload' = [NoPayload EXCEPT !.template_type = tt, !.fields = fm, !.transcript = tr]
        /\ IF fm = <<>>
           THEN /\ response' = ErrorResponse(HTTP_400_BAD_REQUEST,
                                   "At least one field is required to build the report.")
                /\ UNCHANGED <<rendered, renderedAt>>
           ELSE /\ rendered' = rendered + 1
                /\ renderedAt' = now
                /\ response' = ReportGenerationResponse(GenerateReport(IF previous.some THEN previous.template_type ELSE tt,
                                                  fm, tr, now))
    /\ pc' = "done"
    /\ UNCHANGED <<text, choice, result, sttCalls, llmCalls, docxOpened, answer, heard,
                   templateFile, previous, inflight, settings, session_state, lastReset>>

\* POST /api/report/generate
GenerateReportRoute ==
    /\ pc = "idle"
    /\ \E tt \in TemplateTypes, fm \in FieldMaps, tr \in OptionalTranscripts, now \in Nows :
        /\ route' = "generate"
        /\ payload' = [NoPayload EXCEPT !.template_type = tt, !.fields = fm, !.transcript = tr]
        /\ IF fm = <<>>
           THEN /\ response' = ErrorResponse(HTTP_400_BAD_REQUEST,
                                   "At least one field is required to build the report.")
                /\ UNCHANGED <<rendered, renderedAt>>
           ELSE /\ rendered' = rendered + 1
                /\ renderedAt' = now
                /\ response' = ReportGenerationResponse(GenerateReport(tt, fm, tr, now))
    /\ pc' = "done"
    /\ UNCHANGED <<text, choice, result, sttCalls, llmCalls, docxOpened, answer, heard,
                   templateFile, previous, inflight, settings, session_state, lastReset>>

\* The file name of the download
DocxFilename(fields) ==
    <<"r", "a", "p", "p", "o", "r", "t", "_", "i", "n", "c", "i", "d", "e", "n", "t", "_">>
    \o Replace(IF HasKey(fields, F_DateDecouverte) THEN Get(fields, F_DateDecouverte).s
                ELSE <<"s", "a", "n", "s", "_", "d", "a", "t", "e">>, <<"/">>, <<"-">>)
    \o <<".", "d", "o", "c", "x">>

\* A faulty handler: the field map is not tested before the template is used
DownloadDocx_noGuard ==
    /\ pc = "idle"
    /\ \E fm \in FieldMaps, file \in TemplateFiles :
        /\ route' = "docx"
        /\ payload' = [NoPayload EXCEPT !.fields = fm]
        /\ templateFile' = file
        /\ IF ~file.exists
           THEN /\ response' = ErrorResponse(HTTP_500_INTERNAL_SERVER_ERROR, "Template not found")
                /\ UNCHANGED docxOpened
           ELSE /\ docxOpened' = docxOpened + 1
                /\ response' = IF file.error = ""
                               THEN DocxResponse(GenerateIncidentDocx(fm, file.rows),
                                                 DocxFilename(fm))
                               ELSE [ErrorResponse(HTTP_500_INTERNAL_SERVER_ERROR,
                                                   "Failed to generate DOCX")
                                        EXCEPT !.cause = file.error]
    /\ pc' = "done"
    /\ UNCHANGED <<text, choice, result, sttCalls, llmCalls, rendered, answer, heard,
                   renderedAt, previous, inflight, settings, session_state, lastReset>>

\* A faulty handler: when saving fails, the rows filled so far are sent
DownloadDocxFrom_partial(maps, files) ==
    /\ pc = "idle"
    /\ \E fm \in maps, file \in files :
        /\ route' = "docx"
        /\ payload' = [NoPayload EXCEPT !.fields = fm]
        /\ templateFile' = file
        /\ IF fm = <<>>
           THEN /\ response' = ErrorResponse(HTTP_400_BAD_REQUEST,
                                   "At least one field is required to generate the DOCX.")
                /\ UNCHANGED docxOpened
           ELSE IF ~file.exists
           THEN /\ response' = ErrorResponse(HTTP_500_INTERNAL_SERVER_ERROR, "Template not found")
                /\ UNCHANGED docxOpened
           ELSE /\ docxOpened' = docxOpened + 1
                /\ response' = IF file.error = "" \/ file.rows # <<>>
                               THEN DocxResponse(GenerateIncidentDocx(fm, file.rows),
                                                 DocxFilename(fm))
                               ELSE [ErrorResponse(HTTP_500_INTERNAL_SERVER_ERROR,
                                                   "Failed to generate DOCX")
                                        EXCEPT !.cause = file.error]
    /\ pc' = "done"
    /\ UNCHANGED <<text, choice, result, sttCalls, llmCalls, rendered, answer, heard,
                   renderedAt, previous, inflight, settings, session_state, lastReset>>

\* POST /api/report/download/docx, for the field maps and the template files
\* given: the field map is tested, then the template's existence; an exception
\* of generate_incident_docx (opening, filling or saving) becomes a 500
DownloadDocxFrom(maps, files) ==
    /\ pc = "idle"
    /\ \E fm \in maps, file \in files :
        /\ route' = "docx"
        /\ payload' = [NoPayload EXCEPT !.fields = fm]
        /\ templateFile' = file
        /\ IF fm = <<>>
           THEN /\ response' = ErrorResponse(HTTP_400_BAD_REQUEST,
                                   "At least one field is required to generate the DOCX.")
                /\ UNCHANGED docxOpened
           ELSE IF ~file.exists
           THEN /\ response' = ErrorResponse(HTTP_500_INTERNAL_SERVER_ERROR, "Template not found")
                /\ UNCHANGED docxOpened
           ELSE /\ docxOpened' = docxOpened + 1
                /\ response' = IF file.error = ""
                               THEN DocxResponse(GenerateIncidentDocx(fm, file.rows),
                                                 DocxFilename(fm))
                               ELSE [ErrorResponse(HTTP_500_INTERNAL_SERVER_ERROR,
                                                   "Failed to generate DOCX")
                                        EXCEPT !.cause = file.error]
    /\ pc' = "done"
    /\ UNCHANGED <<text, choice, result, sttCalls, llmCalls, rendered, answer, heard,
                   renderedAt, previous, inflight, settings, session_state, lastReset>>

\* POST /api/report/download/docx
DownloadDocx == DownloadDocxFrom(FieldMaps, TemplateFiles)

\* The response is sent: nothing of the request is left in the server
EndOfRequest ==
    /\ pc = "done"
    /\ pc' = "idle"
    /\ route' = "none"
    /\ payload' = NoPayload
    /\ text' = <<>>
    /\ choice' = NoChoice
    /\ result' = NoResult
    /\ response' = NoResponse
    /\ sttCalls' = 0
    /\ llmCalls' = 0
    /\ rendered' = 0
    /\ docxOpened' = 0
    /\ answer' = ApiError
    /\ heard' = NoHeard
    /\ renderedAt' = NoNow
    /\ templateFile' = NoFile
    /\ UNCHANGED <<inflight, settings, session_state, lastReset>>

\* The server takes the next request
Finish == EndOfRequest /\ previous' = NoPrevious

\* The server takes the next request; when this one was a report generation
\* that rendered, its arguments and its text are remembered for comparison
FinishRemembering ==
    /\ EndOfRequest
    /\ previous' = IF route = "generate" /\ rendered = 1
                   THEN [some |-> TRUE, template_type |-> payload.template_type,
                         fields |-> payload.fields, transcript |-> payload.transcript,
                         now |-> renderedAt, report_text |-> response.report_text]
                   ELSE previous

Spec ==
    Init /\ [][\/ InferTemplateRoute(Transcripts)
               \/ Transcribe
               \/ AutoPipeline
               \/ SttReturn
               \/ LlmReturn({"error", "no_choices", "content"}, Nows)
               \/ GenerateReportRoute
               \/ DownloadDocx
               \/ Finish]_vars

\* The template route on the wide transcript set, the chat-completion call failing
SpecClassify ==
    Init /\ [][\/ InferTemplateRoute(WideTranscripts \cup Transcripts)
               \/ LlmReturn({"error"}, Nows)
               \/ Finish]_vars

\* DOCX downloads only.  The field maps: none; the scenario's address; a value
\* that is itself a token; an empty value, the other fields absent.  The
\* templates: no file, an unreadable file, and one row for every row of up to
\* MaxCells cells
SpecDocx ==
    Init /\ [][\/ DownloadDocxFrom(
                     {<<>>,
                      <<Entry(F_Adresse, JStr(<<"1", "2", " ", "R", "u", "e", " ", "X">>)),
                        Entry(F_NomChantier, V_text)>>,
                      <<Entry(F_NomChantier, JStr(BracketToken(F_Adresse))),
                        Entry(F_Adresse, V_text)>>,
                      <<Entry(F_Adresse, V_empty)>>},
                     {NoFile, BadFile}
                     \cup {DocFile(<<row>>) :
                              row \in UNION {[1..n -> CellTexts] : n \in 1..MaxCells}})
                \/ Finish]_vars

\* Report generation only, one request after the other, the rendering of the
\* request before remembered
SpecRender == Init /\ [][GenerateReportRoute \/ FinishRemembering]_vars

----------------------------------------------------------------------------
(* Several requests in flight: every handler is a coroutine of the one     *)
(* event loop, it runs from one await to the next without interruption and *)
(* the other handlers run while it is suspended.  A handler's locals are   *)
(* inflight[r]; the cache of get_settings is the only object the handlers  *)
(* share.                                                                  *)

\* get_settings under lru_cache(maxsize=1): the first call builds Settings(),
\* every later call returns the cached instance
GetSettings == IF settings.cached THEN settings ELSE [cached |-> TRUE, value |-> Settings]

\* transcribe_audio up to its await, in request r: the language of the call is
\* the payload's, or the default of the settings
BusyTranscribeCall(r, route_, asked) ==
    /\ settings' = GetSettings
    /\ inflight' = [inflight EXCEPT ![r] =
            [NoRequest EXCEPT !.pc = "stt", !.route = route_,
                              !.payload = [NoPayload EXCEPT !.audio_b64 = "audio"],
                              !.asked = asked,
                              !.language = IF asked = None
                                           THEN GetSettings.value.default_language
                                           ELSE asked.s]]

\* A handler starts and runs up to its first await
Accept(r) ==
    /\ inflight[r].pc = "idle"
    /\ \/ \E asked \in {None, Some(<<"e", "n">>)} : BusyTranscribeCall(r, "transcribe", asked)
       \/ BusyTranscribeCall(r, "auto", None)
       \/ \E t \in {TR_scenario, TR_generic} :
            /\ settings' = GetSettings
            /\ inflight' = [inflight EXCEPT ![r] =
                    [NoRequest EXCEPT !.pc = "llm", !.route = "template",
                                      !.payload = [NoPayload EXCEPT !.transcript = Some(t)],
                                      !.text = Strip(t),
                                      !.choice = SelectTemplate(Strip(t))]]
    /\ UNCHANGED <<single, session_state, lastReset>>

\* The transcription call of request r returns
SttDone(r) ==
    /\ inflight[r].pc = "stt"
    /\ \E stt \in {[kind |-> "error", text |-> <<>>], [kind |-> "text", text |-> TR_scenario]} :
        LET got == TranscribeResult(stt)
            mine == [inflight[r] EXCEPT !.heard = stt]
        IN  /\ inflight' = [inflight EXCEPT ![r] =
                    IF got.raised
                    THEN [mine EXCEPT !.pc = "done",
                                      !.response = ErrorResponse(HTTP_500_INTERNAL_SERVER_ERROR,
                                                                 "exception")]
                    ELSE IF mine.route = "transcribe"
                    THEN [mine EXCEPT !.pc = "done",
                                      !.response = TranscriptionResponse(got.text)]
                    ELSE [mine EXCEPT !.pc = "llm", !.text = got.text,
                                      !.choice = SelectTemplate(got.text)]]
            /\ settings' = IF got.raised \/ mine.route = "transcribe"
                           THEN settings ELSE GetSettings
    /\ UNCHANGED <<single, session_state, lastReset>>

\* The chat-completion call of request r returns, infer_template goes on with
\* the transcript and the choice it holds
LlmDoneWith(r, transcript, chosen) ==
    /\ inflight[r].pc = "llm"
    /\ \E api \in {ApiError,
                   [kind |-> "content", raw |-> <<JsonChar>>,
                    doc |-> DocObj(AllSame(chosen.field_schema, V_text))]} :
       \E now \in {n \in Nows : n.day = 5} :
       \E tried \in {Extract(ChatCompletion(api), chosen.field_schema)} :
       \E fields \in {IF tried.raised
                      THEN DocObj(FallbackFields(chosen.template, chosen.field_schema))
                      ELSE tried.fields} :
       \E filled \in {AutoFillDateTime(fields, now)} :
        inflight' = [inflight EXCEPT ![r] =
            [@ EXCEPT !.pc = "done", !.answer = api, !.now = now,
                      !.response =
                        IF filled.raised
                        THEN ErrorResponse(HTTP_500_INTERNAL_SERVER_ERROR, "exception")
                        ELSE IF inflight[r].route = "template"
                        THEN TemplateInferenceResponse(chosen.template, filled.fields.d)
                        ELSE AutoPipelineResponse(transcript, chosen.template, filled.fields.d,
                                GenerateReport(chosen.template, filled.fields.d,
                                               Some(transcript), now))]]
    /\ UNCHANGED <<single, settings, session_state, lastReset>>

\* A faulty service: the transcript and the choice are kept in one module
\* variable, a request that resumes finds those of the request that came last
LlmDone_sharedTranscript(r) ==
    \E q \in {p \in Requests : inflight[p].pc = "llm"} :
        LlmDoneWith(r, inflight[q].text, inflight[q].choice)

LlmDone(r) == LlmDoneWith(r, inflight[r].text, inflight[r].choice)

\* The response of request r is sent, its handler is gone
Respond(r) ==
    /\ inflight[r].pc = "done"
    /\ inflight' = [inflight EXCEPT ![r] = NoRequest]
    /\ UNCHANGED <<single, settings, session_state, lastReset>>

SpecConcurrent ==
    Init /\ [][\E r \in Requests : Accept(r) \/ SttDone(r) \/ LlmDone(r) \/ Respond(r)]_vars

----------------------------------------------------------------------------
(* The Streamlit page: every interaction reruns main on st.session_state.   *)
(* A keyed widget keeps its value in the session under its key.  The        *)
(* removal of the keys of widgets a run did not draw is Streamlit's and is  *)
(* not modelled.                                                            *)

\* set_transcript_state: the transcript and the text of its widget together
SetTranscriptState(state, value) ==
    [state EXCEPT !.transcript = value, !.transcript_editor = value]

\* reset_workflow without the clear: init_state alone keeps every stored value
ResetWorkflow_noClear(state) ==
    [InitState(state) EXCEPT !.mode = IF "mode" \in DOMAIN state THEN state.mode ELSE MANUAL_MODE]

\* reset_workflow: remember the mode, clear the session, seed it, restore the mode
ResetWorkflow(state) ==
    [InitState(<<>>) EXCEPT !.mode = IF "mode" \in DOMAIN state THEN state.mode ELSE MANUAL_MODE]

\* main down to capture_audio: seed the session, reset it when the button was
\* clicked, store the radio's choice, store the recording the audio widget
\* returns when it is not empty
Main(state, reset, mode_choice, recording) ==
    LET seeded == InitState(state)
        cleared == IF reset THEN ResetWorkflow(seeded) ELSE seeded
        heard_ == ("record_audio" :> recording) @@ [cleared EXCEPT !.mode = mode_choice]
    IN  IF recording.some /\ recording.s # <<>>
        THEN [heard_ EXCEPT !.audio_bytes = recording]
        ELSE heard_

\* The rest of the run when no button is clicked.  render_manual_workflow:
\* the text area's text replaces a different transcript; the field table is
\* drawn when transcript and fields are not empty and its rows are stored.
\* render_auto_workflow stores nothing.
RenderWorkflow(state, new_transcript, edited) ==
    IF state.mode # MANUAL_MODE
    THEN state
    ELSE LET typed == IF new_transcript # state.transcript
                      THEN SetTranscriptState(state, new_transcript)
                      ELSE state
         IN  IF typed.transcript # <<>> /\ typed.fields # <<>>
             THEN ("fields_editor" :> edited) @@ [typed EXCEPT !.fields = edited]
             ELSE typed

\* A run with no button clicked: the user chose a mode, recorded or removed
\* a memo, typed in the text area or edited the field table
Interact ==
    /\ \E mode_choice \in {MANUAL_MODE, AUTO_MODE},
          recording \in {None, Some(<<>>), Some(<<"w", "a", "v">>)},
          new_transcript \in {session_state.transcript_editor, TR_generic, <<>>},
          edited \in {<<>>, <<Entry(F_Date, V_text)>>} :
            \E shown \in {Main(session_state, FALSE, mode_choice, recording)} :
                session_state' =
                    RenderWorkflow(shown, new_transcript,
                                   IF edited = <<>> THEN shown.fields ELSE edited)
    /\ lastReset' = [some |-> FALSE, before |-> <<>>, after |-> <<>>]
    /\ UNCHANGED <<single, inflight, settings>>

\* The button of step 1, with a stored recording.  handle_transcription: a
\* failed call changes nothing; else the text is stored and
\* populate_fields_from_transcript stores type and fields unless the stripped
\* transcript is empty or the call fails; the page is then drawn again
HandleTranscription ==
    /\ session_state.mode = MANUAL_MODE
    /\ session_state.audio_bytes # None
    /\ \E ok \in BOOLEAN, said \in {TR_generic, TR_blank, <<>>},
          inferred \in BOOLEAN, template_type \in {T_probleme_decouverte, T_rapport_generique},
          fields \in {<<>>, FM_incident} :
            \E shown \in {Main(session_state, FALSE, session_state.mode,
                               session_state.record_audio)} :
            \E stored \in {IF ~ok THEN shown
                           ELSE IF Strip(said) = <<>> \/ ~inferred
                                THEN SetTranscriptState(shown, said)
                                ELSE [SetTranscriptState(shown, said) EXCEPT
                                          !.template_type = template_type,
                                          !.fields = fields]} :
                session_state' = RenderWorkflow(stored, stored.transcript_editor, stored.fields)
    /\ lastReset' = [some |-> FALSE, before |-> <<>>, after |-> <<>>]
    /\ UNCHANGED <<single, inflight, settings>>

\* The button of step 3, drawn when the fields are not empty.
\* handle_report_generation: a failed call changes nothing, else the report
\* text is stored
HandleReportGeneration ==
    /\ session_state.mode = MANUAL_MODE
    /\ \E ok \in BOOLEAN, report_text \in {<<"R", "A", "P", "P", "O", "R", "T">>} :
        \E shown \in {Main(session_state, FALSE, session_state.mode,
                           session_state.record_audio)} :
        \E drawn \in {RenderWorkflow(shown, shown.transcript_editor, shown.fields)} :
            /\ drawn.fields # <<>>
            /\ session_state' = IF ok THEN [drawn EXCEPT !.report_text = report_text]
                                ELSE drawn
    /\ lastReset' = [some |-> FALSE, before |-> <<>>, after |-> <<>>]
    /\ UNCHANGED <<single, inflight, settings>>

\* The button of the automatic mode, with a stored recording.
\* handle_auto_pipeline: a failed call changes nothing, else the four parts
\* of the response are stored
HandleAutoPipeline ==
    /\ session_state.mode = AUTO_MODE
    /\ session_state.audio_bytes # None
    /\ \E ok \in BOOLEAN, said \in {TR_generic, <<>>},
          template_type \in {T_probleme_decouverte, T_rapport_generique},
          fields \in {<<>>, FM_incident},
          report_text \in {<<"R", "A", "P", "P", "O", "R", "T">>} :
        \E shown \in {Main(session_state, FALSE, session_state.mode,
                           session_state.record_audio)} :
            session_state' =
                IF ok
                THEN [SetTranscriptState(shown, said) EXCEPT
                          !.template_type = template_type,
                          !.fields = fields,
                          !.report_text = report_text]
                ELSE shown
    /\ lastReset' = [some |-> FALSE, before |-> <<>>, after |-> <<>>]
    /\ UNCHANGED <<single, inflight, settings>>

\* The reset button of the sidebar: reset_workflow runs inside main, which
\* then goes on.  The audio widget of the cleared session returns its memo
\* or nothing
ClickReset ==
    /\ \E recording \in {None, session_state.record_audio} :
        \E shown \in {Main(session_state, TRUE, session_state.mode, recording)} :
            session_state' = RenderWorkflow(shown, shown.transcript_editor, shown.fields)
    /\ lastReset' = [some |-> TRUE, before |-> InitState(session_state),
                     after |-> ResetWorkflow(InitState(session_state))]
    /\ UNCHANGED <<single, inflight, settings>>

SpecSession ==
    Init /\ [][\/ Interact
               \/ HandleTranscription
               \/ HandleReportGeneration
               \/ HandleAutoPipeline
               \/ ClickReset]_vars
----------------------------------------------------------------------------
(* The properties of the specification, each with a state that shows its   *)
(* case reached.                                                           *)

\* The keyword sets in the order the specification gives them, each with the
\* template it stands for
KeywordSets ==
    <<[words |-> IncidentWords, template |-> T_probleme_decouverte],
      [words |-> SafetyWords, template |-> T_tour_securite],
      [words |-> TaskWords, template |-> T_tache_assignee]>>

\* Set k has a keyword occurring in the lower-cased transcript
SetOccurs(k, transcript) ==
    \E i \in 1..Len(KeywordSets[k].words) :
        Contains(Lower(transcript), KeywordSets[k].words[i])

\* C1: infer_template selects the template of the first keyword set, in the
\* order incident, safety/inspection, task, that has a keyword occurring in
\* the lower-cased transcript; a transcript with an incident keyword and a task
\* keyword yields probleme_decouverte; the template is a function of the
\* transcript alone (so the same transcript yields the same template); the
\* scenario transcript is classified probleme_decouverte.
C1_PriorityOrder ==
    choice # NoChoice =>
        /\ \A k \in 1..Len(KeywordSets) :
            (SetOccurs(k, text) /\ \A j \in 1..(k - 1) : ~SetOccurs(j, text))
                => choice.template = KeywordSets[k].template
        /\ (SetOccurs(1, text) /\ SetOccurs(3, text)) => choice.template = T_probleme_decouverte
        /\ text = TR_scenario => choice.template = T_probleme_decouverte

\* A transcript with an incident keyword and a task keyword has been classified
C1_Witness ==
    /\ pc = "llm"
    /\ SetOccurs(1, text)
    /\ SetOccurs(3, text)
    /\ choice.template = T_probleme_decouverte

TemplateIds == {T_probleme_decouverte, T_tour_securite, T_tache_assignee, T_rapport_generique}

\* C2: the template identifier infer_template chooses is one of the four of
\* the enumeration, and it is rapport_generique exactly when no keyword of the
\* incident, safety or task sets occurs in the lower-cased transcript.
C2_ClosedEnumeration ==
    choice # NoChoice =>
        /\ choice.template \in TemplateIds
        /\ choice.template = T_rapport_generique
            <=> \A k \in 1..Len(KeywordSets) : ~SetOccurs(k, text)

\* A transcript without keyword has been classified generic
C2_Witness ==
    /\ pc = "llm"
    /\ text = TR_generic
    /\ choice.template = T_rapport_generique

\* C3: a template-inference request whose transcript is empty or only
\* whitespace is answered 400, and no chat-completion call is made for it.
C3_EmptyTranscriptRejected ==
    (route = "template" /\ Strip(payload.transcript.s) = <<>>) =>
        /\ pc = "done"
        /\ response.status = 400
        /\ llmCalls = 0
        /\ choice = NoChoice

\* A transcript of whitespace has been rejected
C3_Witness ==
    /\ route = "template"
    /\ payload.transcript = Some(TR_blank)
    /\ response.status = 400
    /\ llmCalls = 0

\* C4: a report-generation request and a DOCX-download request whose field map
\* has no entries are answered 400; no report text is rendered and the DOCX
\* template is neither opened nor filled.
C4_EmptyFieldMapRejected ==
    (route \in {"generate", "docx"} /\ payload.fields = <<>>) =>
        /\ pc = "done"
        /\ response.status = 400
        /\ rendered = 0
        /\ docxOpened = 0
        /\ response.report_text = <<>>
        /\ response.docx = <<>>

\* A DOCX download without fields has been rejected
C4_Witness ==
    /\ route = "docx"
    /\ payload.fields = <<>>
    /\ response.status = 400
    /\ docxOpened = 0

\* infer_template has returned (it has not raised)
Returned == result.state = "returned"

\* The answer of the endpoint was parsed as a JSON object
ParsedAsObject ==
    /\ answer.kind = "content"
    /\ answer.raw # <<>>
    /\ ~JsonLoads(CleanResponse(answer.raw), answer.doc).raised
    /\ answer.doc.t = "obj"

\* C5: in every result of infer_template every field name of the chosen
\* schema is a key of the returned map (a dict); a schema field the parsed
\* answer omitted holds "" before the date and time defaulting.
C5_SchemaFieldsAreKeys ==
    Returned =>
        /\ result.fields.t = "obj"
        /\ result.extracted.t = "obj"
        /\ \A i \in 1..Len(choice.field_schema) :
            /\ HasKey(result.fields.d, choice.field_schema[i])
            /\ HasKey(result.extracted.d, choice.field_schema[i])
            /\ (ParsedAsObject /\ ~HasKey(answer.doc.d, choice.field_schema[i]))
                => Get(result.extracted.d, choice.field_schema[i]) = JStr(<<>>)

\* An answer that is an object holding none of the schema's names was returned
\* as a map with all of them
C5_Witness ==
    /\ Returned
    /\ ParsedAsObject
    /\ answer.doc.d = <<Entry(F_Extra, V_text)>>
    /\ Len(result.fields.d) = Len(choice.field_schema) + 1

\* The date and the time of a clock reading, digit by digit
TwoDigits(n) == <<DigitChars[(n \div 10) + 1], DigitChars[(n % 10) + 1]>>

FourDigits(n) ==
    <<DigitChars[(n \div 1000) + 1], DigitChars[((n \div 100) % 10) + 1]>> \o TwoDigits(n % 100)

DateText(now) == TwoDigits(now.day) \o <<"/">> \o TwoDigits(now.month) \o <<"/">> \o FourDigits(now.year)

TimeText(now) == TwoDigits(now.hour) \o <<":">> \o TwoDigits(now.minute)

\* What the fallback map holds under a name, after the defaulting
FallbackValue(name) ==
    IF name = F_Operateur
    THEN (IF choice.template = T_tour_securite THEN OP_tour_securite
          ELSE IF choice.template = T_tache_assignee THEN OP_tache_assignee
          ELSE OP_default)
    ELSE IF name \in {F_Date, F_DateDecouverte} THEN DateText(result.now)
    ELSE IF name \in {F_Heure, F_HeureDecouverte} THEN TimeText(result.now)
    ELSE <<>>

\* C6: when the chat-completion call raises or its answer cannot be parsed as
\* a JSON object, infer_template does not raise and returns the chosen template
\* with every schema field "", except the operator default and the date and
\* time defaults.  (The code does not satisfy this: a parsed answer that is a
\* JSON list or string holding every schema name makes infer_template raise a
\* TypeError from its date and time statements, outside the try block.)
C6_FallbackNeverRaises ==
    (result.state # "none" /\ ~ParsedAsObject) =>
        /\ Returned
        /\ result.template = choice.template
        /\ result.fields.t = "obj"
        /\ Keys(result.fields.d) = choice.field_schema
        /\ \A i \in 1..Len(choice.field_schema) :
            result.fields.d[i].v = JStr(FallbackValue(choice.field_schema[i]))

\* C6, the part the code satisfies: the same, unless the answer is a JSON list
\* or string in which every schema name occurs
AnswerHoldsEveryName ==
    /\ answer.kind = "content"
    /\ answer.raw # <<>>
    /\ ~JsonLoads(CleanResponse(answer.raw), answer.doc).raised
    /\ answer.doc.t \in {"list", "str"}
    /\ \A i \in 1..Len(choice.field_schema) : PyIn(choice.field_schema[i], answer.doc)

C6_FallbackOtherwise ==
    (result.state # "none" /\ ~ParsedAsObject) =>
        IF AnswerHoldsEveryName THEN result.state = "raised"
        ELSE /\ Returned
             /\ result.fields.t = "obj"
             /\ Keys(result.fields.d) = choice.field_schema
             /\ \A i \in 1..Len(choice.field_schema) :
                 result.fields.d[i].v = JStr(FallbackValue(choice.field_schema[i]))

DateNames == {F_DateDecouverte, F_Date}

TimeNames == {F_HeureDecouverte, F_Heure}

\* C7: in every result of infer_template, each of the four date and time
\* fields that is present and was empty (false) after extraction holds the
\* current date as DD/MM/YYYY or the current time as HH:MM; a field that was
\* not empty is left as it was; no date or time field of a returned map is empty.
C7_DateTimeDefaults ==
    Returned =>
        \A name \in DateNames \cup TimeNames :
            HasKey(result.extracted.d, name) =>
                /\ Get(result.fields.d, name) =
                    (IF Truthy(Get(result.extracted.d, name)) THEN Get(result.extracted.d, name)
                     ELSE IF name \in DateNames THEN JStr(DateText(result.now))
                     ELSE JStr(TimeText(result.now)))
                /\ Truthy(Get(result.fields.d, name))

\* An empty discovery date was filled on 5 November 2026 at 09:07
C7_Witness ==
    /\ Returned
    /\ HasKey(result.extracted.d, F_DateDecouverte)
    /\ Get(result.extracted.d, F_DateDecouverte) = JStr(<<>>)
    /\ Get(result.fields.d, F_DateDecouverte)
        = JStr(<<"0", "5", "/", "1", "1", "/", "2", "0", "2", "6">>)
    /\ Get(result.fields.d, F_HeureDecouverte) = JStr(<<"0", "9", ":", "0", "7">>)

\* The fields the specification gives organizational defaults
OrganizationalFields ==
    {F_NomChantier, F_Emetteur, F_Adresse, F_NiveauUrgence, F_PersonnesPrevenues}

\* C8: in every returned field map of the incident template the site name, the
\* reporter, the address, the urgency and the notified parties are not empty.
\* (The code does not satisfy this: infer_template has no such defaults.)
C8_OrganizationalDefaults ==
    (Returned /\ result.template = T_probleme_decouverte) =>
        \A name \in OrganizationalFields :
            /\ HasKey(result.fields.d, name)
            /\ Truthy(Get(result.fields.d, name))

\* C9: every value of the field map infer_template returns is a string.
\* (The code does not satisfy this: a value the answer holds under a name is
\* returned as json.loads gave it.)
C9_ValuesAreStrings ==
    Returned => \A i \in 1..Len(result.fields.d) : IsStr(result.fields.d[i].v)

\* C9, the part the code satisfies: the maps of the responses hold strings only
C9_ResponseValuesAreStrings ==
    response.status = 200 => \A i \in 1..Len(response.fields) : IsStr(response.fields[i].v)

\* The report of the request and the field map it was rendered from
Rendered == route \in {"generate", "auto"} /\ response.status = 200

RenderedFields == IF route = "generate" THEN payload.fields ELSE response.fields

\* The lines of a text: s.split("\n")
RECURSIVE SplitLines(_)
SplitLines(s) ==
    IF \A i \in 1..Len(s) : s[i] # "\n" THEN <<s>>
    ELSE LET k == CHOOSE i \in 1..Len(s) : s[i] = "\n" /\ \A j \in 1..(i - 1) : s[j] # "\n"
         IN  <<SubSeq(s, 1, k - 1)>> \o SplitLines(DropFirst(s, k))

\* The line the specification gives a field
ExpectedLine(e) ==
    L_bullet \o e.k \o L_colon \o (IF e.v.s = <<>> THEN L_non_renseigne ELSE e.v.s)

\* The lines of the text hold, from some line on and one after the other, the
\* expected line of each field
OneLinePerField(report_text, fields) ==
    LET lines == SplitLines(report_text)
    IN  /\ \E offset \in 0..(Len(lines) - Len(fields)) :
            \A i \in 1..Len(fields) : lines[offset + i] = ExpectedLine(fields[i])
        /\ Cardinality({j \in 1..Len(lines) : StartsWith(lines[j], L_bullet)}) = Len(fields)

HasLineBreak(s) == \E i \in 1..Len(s) : s[i] = "\n"

NoLineBreaks(fields) ==
    \A i \in 1..Len(fields) : ~HasLineBreak(fields[i].k) /\ ~HasLineBreak(fields[i].v.s)

\* C10: for every non-empty field map whose keys and values hold no line
\* break, the text of generate_report has exactly one line per field, in the
\* order of the map, of the form "key: value" after the bullet, the value
\* replaced by "Non renseigne" (with its accent) when it is empty; and for
\* every non-empty field map every key occurs literally in the text.
C10_OneLinePerField ==
    Rendered =>
        /\ Len(RenderedFields) > 0
        /\ NoLineBreaks(RenderedFields) => OneLinePerField(response.report_text, RenderedFields)
        /\ \A i \in 1..Len(RenderedFields) :
            Contains(response.report_text, RenderedFields[i].k)

\* A map with an empty value was rendered, the sentinel in its line
C10_Witness ==
    /\ Rendered
    /\ payload.fields = FM_incident
    /\ Contains(response.report_text,
                <<"\n">> \o L_bullet \o F_DateDecouverte \o L_colon \o L_non_renseigne \o <<"\n">>
                \o L_bullet \o F_Adresse \o L_colon \o <<"v", "\n">>)

\* C10 as the specification states it: for every non-empty field map
C10_OneLinePerFieldAlways ==
    Rendered => OneLinePerField(response.report_text, RenderedFields)

\* The request is a report generation that rendered with the arguments and at
\* the clock reading of the one remembered
SameCallAsPrevious ==
    /\ route = "generate"
    /\ rendered = 1
    /\ previous.some
    /\ payload.template_type = previous.template_type
    /\ payload.fields = previous.fields
    /\ payload.transcript = previous.transcript
    /\ renderedAt = previous.now

----------------------------------------------------------------------------
(* The DOCX filler: the rows of the template the request found             *)
(* (templateFile.rows) against the rows of the document it returned        *)
(* (response.docx).                                                        *)

\* The download succeeded
Filled == route = "docx" /\ response.status = 200

RowsIn == templateFile.rows

RowsOut == response.docx

\* The value the field map of the request gives field i of the mapping, ""
\* when it has none
ValueOf(i) ==
    IF \E e \in 1..Len(payload.fields) : payload.fields[e].k = FieldMapping[i]
    THEN payload.fields[CHOOSE e \in 1..Len(payload.fields) :
                            payload.fields[e].k = FieldMapping[i]].v.s
    ELSE <<>>

NotColon(c) == c # ":"

\* The label of the cell, colons removed, trimmed and lower-cased, contains the
\* lower-cased name of field i
LabelNames(cell, i) ==
    Contains(Lower(Strip(SelectSeq(cell, NotColon))), Lower(FieldMapping[i]))

\* The cell holds a token of field i
HoldsToken(cell, i) ==
    \/ Contains(cell, <<"{">> \o FieldMapping[i] \o <<"}">>)
    \/ Contains(cell, <<"[">> \o FieldMapping[i] \o <<"]">>)

\* Field i matches the row: by the label or a token in the left cell, or by a
\* token in the right cell
FieldMatches(row, i) ==
    /\ Len(row) >= 2
    /\ (LabelNames(row[1], i) \/ HoldsToken(row[1], i) \/ HoldsToken(row[2], i))

\* Field i is the first field of the mapping that matches the row
FirstMatch(row, i) == FieldMatches(row, i) /\ \A j \in 1..(i - 1) : ~FieldMatches(row, j)

\* The cell without the tokens of field i
WithoutTokens(cell, i) ==
    Replace(Replace(cell, <<"{">> \o FieldMapping[i] \o <<"}">>, <<>>),
            <<"[">> \o FieldMapping[i] \o <<"]">>, <<>>)

AdresseIndex == CHOOSE i \in 1..Len(FieldMapping) : FieldMapping[i] = F_Adresse

\* C12: for every row of at least two cells whose left label contains the
\* lower-cased name of a field, and which no earlier field of the mapping
\* matches, the right cell becomes the value of the field (or "" when the map
\* has none) and the left cell is the label without the field's tokens,
\* trimmed; "Adresse:" with Adresse = "12 Rue X" gives "Adresse:" and "12 Rue X".
C12_LabelRowFilled ==
    Filled =>
        \A r \in 1..Len(RowsIn) : \A i \in 1..Len(FieldMapping) :
            (Len(RowsIn[r]) >= 2 /\ LabelNames(RowsIn[r][1], i) /\ FirstMatch(RowsIn[r], i))
                => /\ RowsOut[r][2] = ValueOf(i)
                   /\ RowsOut[r][1] = Strip(WithoutTokens(RowsIn[r][1], i))
                   /\ RowsIn[r][1] = F_Adresse \o <<":">>
                        => RowsOut[r][1] = <<"A", "d", "r", "e", "s", "s", "e", ":">>

\* The scenario: "Adresse:" beside an empty cell, Adresse = "12 Rue X"
C12_Witness ==
    /\ Filled
    /\ RowsIn = <<<<F_Adresse \o <<":">>, <<>>>>>>
    /\ RowsOut = <<<<<<"A", "d", "r", "e", "s", "s", "e", ":">>,
                     <<"1", "2", " ", "R", "u", "e", " ", "X">>>>>>

\* C12 as the specification states it: for every row whose label names a field
\* the right cell becomes that field's value and the label only loses tokens
C12_LabelRowFilledAlways ==
    Filled =>
        \A r \in 1..Len(RowsIn) : \A i \in 1..Len(FieldMapping) :
            (Len(RowsIn[r]) >= 2 /\ LabelNames(RowsIn[r][1], i))
                => /\ RowsOut[r][2] = ValueOf(i)
                   /\ RowsOut[r][1] = WithoutTokens(RowsIn[r][1], i)

\* C13: after generate_incident_docx no cell of the document holds a token
\* {F} or [F] of a known field F.  (The code does not satisfy this: in a row
\* that a field fills, only that field's tokens are removed, from the left cell
\* only, and the cells after the second are left as they are.)
C13_NoLeftoverToken ==
    Filled =>
        \A r \in 1..Len(RowsOut) : \A c \in 1..Len(RowsOut[r]) : \A i \in 1..Len(FieldMapping) :
            ~HoldsToken(RowsOut[r][c], i)

\* C19: in a row of at least two cells that some field matches, the first
\* matching field of the mapping has its value written verbatim to the right
\* cell, the left cell loses that field's tokens and is trimmed, and no other
\* cell changes: no later field is applied to the row.
C19_FirstMatchOnly ==
    Filled =>
        \A r \in 1..Len(RowsIn) : \A i \in 1..Len(FieldMapping) :
            FirstMatch(RowsIn[r], i)
                => /\ Len(RowsOut[r]) = Len(RowsIn[r])
                   /\ RowsOut[r][2] = ValueOf(i)
                   /\ RowsOut[r][1] = Strip(WithoutTokens(RowsIn[r][1], i))
                   /\ \A c \in 3..Len(RowsIn[r]) : RowsOut[r][c] = RowsIn[r][c]

\* A row that two fields match (Adresse by the label, Nom du chantier by the
\* token in the right cell) was filled by the first of the mapping
C19_Witness ==
    /\ Filled
    /\ RowsIn = <<<<F_Adresse \o <<":">>, <<"{">> \o F_NomChantier \o <<"}">>>>>>
    /\ ValueOf(1) = <<"v">>
    /\ ValueOf(AdresseIndex) = <<"1", "2", " ", "R", "u", "e", " ", "X">>
    /\ RowsOut[1][2] = <<"v">>

\* The fields whose value row r received: the first match, and every field
\* with a token that went from a cell
FieldsApplied(r) ==
    {i \in 1..Len(FieldMapping) :
        \/ FirstMatch(RowsIn[r], i)
        \/ \E c \in 3..Len(RowsIn[r]) :
            HoldsToken(RowsIn[r][c], i) /\ ~HoldsToken(RowsOut[r][c], i)}

\* C19 as the specification states it: every row of at least two cells
\* receives the value of at most one field
C19_AtMostOneField ==
    Filled =>
        \A r \in 1..Len(RowsIn) : Len(RowsIn[r]) >= 2 => Cardinality(FieldsApplied(r)) <= 1

\* Every token of a known field replaced by the field's value, in one pass
\* from left to right, the text outside the tokens kept
RECURSIVE Substituted(_)
Substituted(cell) ==
    IF cell = <<>> THEN <<>>
    ELSE IF \E i \in 1..Len(FieldMapping) :
                \/ StartsWith(cell, <<"{">> \o FieldMapping[i] \o <<"}">>)
                \/ StartsWith(cell, <<"[">> \o FieldMapping[i] \o <<"]">>)
    THEN LET i == CHOOSE j \in 1..Len(FieldMapping) :
                    \/ StartsWith(cell, <<"{">> \o FieldMapping[j] \o <<"}">>)
                    \/ StartsWith(cell, <<"[">> \o FieldMapping[j] \o <<"]">>)
         IN  ValueOf(i) \o Substituted(DropFirst(cell, Len(FieldMapping[i]) + 2))
    ELSE <<Head(cell)>> \o Substituted(Tail(cell))

Openers == {"{", "["}

Closers == {"}", "]"}

\* No brace or bracket opens inside another
NotNested(cell) ==
    \A p, q \in 1..Len(cell) :
        (p < q /\ cell[p] \in Openers /\ cell[q] \in Openers)
            => \E m \in (p + 1)..(q - 1) : cell[m] \in Closers

\* No value of the field map holds a brace or a bracket
PlainValues ==
    \A e \in 1..Len(payload.fields) : \A p \in 1..Len(payload.fields[e].v.s) :
        payload.fields[e].v.s[p] \notin Openers \cup Closers

Unmatched(row) == \A i \in 1..Len(FieldMapping) : ~FieldMatches(row, i)

\* C20: in a row that no field matches (every row of one cell is one), when
\* no value of the field map holds a brace or bracket and the braces and
\* brackets of the cell are not nested, every token of a known field in the
\* cell is replaced by the field's value (or "" when the map has none) and the
\* text outside the tokens is unchanged.
C20_GenericSweep ==
    Filled =>
        \A r \in 1..Len(RowsIn) :
            Unmatched(RowsIn[r]) =>
                /\ Len(RowsOut[r]) = Len(RowsIn[r])
                /\ \A c \in 1..Len(RowsIn[r]) :
                    (PlainValues /\ NotNested(RowsIn[r][c]))
                        => RowsOut[r][c] = Substituted(RowsIn[r][c])

\* A heading row with the tokens of two fields was swept
C20_Witness ==
    /\ Filled
    /\ RowsIn = <<<<<<"A", " ", "{">> \o F_Adresse \o <<"}", " ", "[">> \o F_NomChantier
                    \o <<"]">>>>>>
    /\ RowsOut = <<<<<<"A", " ", "1", "2", " ", "R", "u", "e", " ", "X", " ", "v">>>>>>

\* C20 as the specification states it: for every field map and every cell
C20_GenericSweepAlways ==
    Filled =>
        \A r \in 1..Len(RowsIn) :
            Unmatched(RowsIn[r]) =>
                \A c \in 1..Len(RowsIn[r]) : RowsOut[r][c] = Substituted(RowsIn[r][c])

\* A DOCX download has ended
DocxEnded == pc = "done" /\ route = "docx"

----------------------------------------------------------------------------
(* The calls to the hosted endpoints.                                      *)

\* The transcription endpoint has answered the request with an error or
\* without text
SttFailed == heard.kind = "error" \/ (heard.kind = "text" /\ heard.text = <<>>)

\* The chat-completion endpoint has answered the request with an error,
\* without choice or without content
LlmFailed == result.state # "none" /\ (answer.kind # "content" \/ answer.raw = <<>>)

FallbackMap == AutoFillDateTime(DocObj(FallbackFields(choice.template, choice.field_schema)),
                                result.now).fields.d

\* C16: a failed transcription call is terminal, the request ends with a 500;
\* a failed chat-completion call is not, infer_template falls back to the
\* schema with empty values and the request ends with a success.
C16_SttTerminalLlmFallback ==
    /\ SttFailed =>
        /\ pc = "done"
        /\ response = ErrorResponse(HTTP_500_INTERNAL_SERVER_ERROR, "exception")
    /\ LlmFailed =>
        /\ pc = "done"
        /\ response.status = HTTP_200_OK
        /\ response.template_type = choice.template
        /\ response.fields = FallbackMap

\* The chat-completion call of an auto pipeline failed and the request
\* answered with a report
C16_Witness ==
    /\ route = "auto"
    /\ answer.kind = "error" /\ LlmFailed
    /\ response.status = HTTP_200_OK
    /\ response.fields = FallbackMap
    /\ response.report_text # <<>>

\* C16 as the specification states it: a request whose transcription call or
\* chat-completion call failed ends with an error response
C16_EveryApiErrorTerminal ==
    (pc = "done" /\ (SttFailed \/ LlmFailed)) => response.status >= HTTP_400_BAD_REQUEST

\* C18: in the auto pipeline the chat-completion call is made only after the
\* transcription returned a text, and with that text; the report is rendered
\* only after infer_template returned; a failed transcription leaves no
\* chat-completion call and no report; and the report_text of a success is the
\* rendering of the template_type, fields and text of the same response.
C18_AutoPipelineOrder ==
    route = "auto" =>
        /\ llmCalls = 1 => (heard.kind = "text" /\ text = heard.text /\ text # <<>>)
        /\ rendered = 1 => (llmCalls = 1 /\ result.state = "returned")
        /\ (SttFailed \/ payload.audio_b64 = "bad padding") => (llmCalls = 0 /\ rendered = 0)
        /\ (pc = "done" /\ response.status = HTTP_200_OK) =>
            /\ rendered = 1
            /\ response.text = heard.text
            /\ response.report_text =
                GenerateReport(response.template_type, response.fields, Some(response.text),
                               renderedAt)

\* An auto pipeline answered an incident report on the text it heard
C18_Witness ==
    /\ route = "auto" /\ pc = "done"
    /\ response.status = HTTP_200_OK
    /\ heard.kind = "text" /\ response.text = heard.text
    /\ response.template_type = T_probleme_decouverte
    /\ response.fields # <<>>
    /\ Contains(response.report_text, response.text)

----------------------------------------------------------------------------
(* Requests in flight at once.                                             *)

\* What infer_template returns for a transcript, an answer of the
\* chat-completion endpoint and an instant
Inferred(transcript, api, now) ==
    LET chosen == SelectTemplate(transcript)
        tried == Extract(ChatCompletion(api), chosen.field_schema)
    IN  [template |-> chosen.template,
         filled |-> AutoFillDateTime(IF tried.raised
                                     THEN DocObj(FallbackFields(chosen.template,
                                                                chosen.field_schema))
                                     ELSE tried.fields, now)]

\* The response of a request as a function of its payload and of the answers
\* to its own calls
OwnResponse(q) ==
    IF q.route = "template"
    THEN LET got == Inferred(Strip(q.payload.transcript.s), q.answer, q.now)
         IN  IF got.filled.raised
             THEN ErrorResponse(HTTP_500_INTERNAL_SERVER_ERROR, "exception")
             ELSE TemplateInferenceResponse(got.template, got.filled.fields.d)
    ELSE IF TranscribeResult(q.heard).raised
    THEN ErrorResponse(HTTP_500_INTERNAL_SERVER_ERROR, "exception")
    ELSE IF q.route = "transcribe"
    THEN TranscriptionResponse(q.heard.text)
    ELSE LET got == Inferred(q.heard.text, q.answer, q.now)
         IN  IF got.filled.raised
             THEN ErrorResponse(HTTP_500_INTERNAL_SERVER_ERROR, "exception")
             ELSE AutoPipelineResponse(q.heard.text, got.template, got.filled.fields.d,
                     GenerateReport(got.template, got.filled.fields.d, Some(q.heard.text),
                                    q.now))

\* C17: with several requests in flight, under every interleaving of their
\* steps, each request calls the transcription endpoint with its own language
\* (or the default), holds the transcript of its own payload or of its own
\* transcription, and answers the response that its own payload and the
\* answers to its own calls determine.
C17_RequestsIndependent ==
    \A r \in Requests :
        LET q == inflight[r]
        IN  /\ q.pc = "stt" =>
                q.language = IF q.asked = None THEN Settings.default_language ELSE q.asked.s
            /\ q.pc = "llm" =>
                q.text = IF q.route = "template" THEN Strip(q.payload.transcript.s)
                         ELSE q.heard.text
            /\ q.pc = "done" => q.response = OwnResponse(q)

\* Two requests were in flight with different transcripts, both have answered,
\* each a report of its own template
C17_Witness ==
    /\ inflight[1].pc = "done" /\ inflight[2].pc = "done"
    /\ inflight[1].route = "template" /\ inflight[2].route = "auto"
    /\ inflight[1].payload.transcript = Some(TR_generic)
    /\ inflight[2].heard.text = TR_scenario
    /\ inflight[1].response.status = HTTP_200_OK
    /\ inflight[2].response.status = HTTP_200_OK
    /\ inflight[1].response.template_type # inflight[2].response.template_type
    /\ inflight[2].response.text = TR_scenario

----------------------------------------------------------------------------
(* The map infer_template returns, against the answer it was parsed from.  *)

\* C21: the keys of the map infer_template returns are the field names of the
\* chosen schema, in the order of the schema.  (The code does not satisfy
\* this: the map is the object json.loads gave, with its own keys in its own
\* order, and only the missing schema names are appended.)
C21_KeysAreSchema ==
    Returned => (result.fields.t = "obj" /\ Keys(result.fields.d) = choice.field_schema)

\* C24: when the answer was parsed as a JSON object and infer_template
\* returned, every value the answer holds under a name that is no date or time
\* field, and every date or time value that is not empty (not false), is in
\* the returned map as it was in the answer; an operator the answer left empty
\* or left out is "" in the returned map.
C24_ReturnedValuesKept ==
    (Returned /\ ParsedAsObject) =>
        /\ \A i \in 1..Len(answer.doc.d) :
            LET e == answer.doc.d[i]
            IN  /\ HasKey(result.fields.d, e.k)
                /\ (e.k \notin DateNames \cup TimeNames \/ Truthy(e.v))
                    => Get(result.fields.d, e.k) = e.v
        /\ \A i \in 1..Len(choice.field_schema) :
            (choice.field_schema[i] = F_Operateur /\ ~HasKey(answer.doc.d, F_Operateur))
                => Get(result.fields.d, F_Operateur) = JStr(<<>>)

\* The answer held "" under every name of a schema with an operator: the
\* operator is still "" in the returned map, the date is not
C24_Witness ==
    /\ Returned
    /\ ParsedAsObject
    /\ HasKey(answer.doc.d, F_Operateur) /\ Get(answer.doc.d, F_Operateur) = JStr(<<>>)
    /\ Get(result.fields.d, F_Operateur) = JStr(<<>>)
    /\ HasKey(answer.doc.d, F_Date) /\ Get(answer.doc.d, F_Date) = JStr(<<>>)
    /\ Get(result.fields.d, F_Date) = JStr(DateText(result.now))

\* C26: in the auto pipeline transcribe_audio returns a text that is not empty
\* or the request ends with its exception; infer_template is called with that
\* text; the map generate_report is called with is a dict of at least one entry.
C26_NonEmptyBetweenStages ==
    route = "auto" =>
        /\ (heard.kind = "text" /\ heard.text = <<>>) => (pc = "done" /\ llmCalls = 0)
        /\ llmCalls = 1 => (text # <<>> /\ text = heard.text)
        /\ rendered = 1 =>
            /\ result.state = "returned"
            /\ result.fields.t = "obj"
            /\ Len(result.fields.d) >= Len(choice.field_schema)
            /\ Len(choice.field_schema) >= 1

\* The chat-completion call of an auto pipeline answered the empty object and
\* the report was rendered from the schema's names
C26_Witness ==
    /\ route = "auto"
    /\ rendered = 1
    /\ answer.kind = "content" /\ answer.doc = DocObj(<<>>) /\ ParsedAsObject
    /\ Keys(result.fields.d) = choice.field_schema
    /\ response.status = HTTP_200_OK

----------------------------------------------------------------------------
(* The transcript block of the report.                                     *)

\* The report generation of the request rendered a report
Generated == route = "generate" /\ rendered = 1 /\ response.status = HTTP_200_OK

\* The footer of every report, from the line break that ends the line before it
FooterText ==
    <<"\n", "\n">> \o Rep("hline", RuleWidth) \o <<"\n">> \o L_footer1 \o <<"\n">> \o L_footer2
    \o <<"\n">> \o Rep("hline", RuleWidth)

\* The transcript block, from the line break that ends the line before it
TranscriptBlock(transcript) ==
    <<"\n", "\n">> \o Rep("hline", RuleWidth) \o <<"\n">> \o L_transcription \o <<"\n">>
    \o Rep("hline", RuleWidth) \o <<"\n", "\n">> \o transcript \o <<"\n">>

\* The report of the same template, fields and instant without transcript
WithoutTranscript ==
    GenerateReport(payload.template_type, payload.fields, None, renderedAt)

\* C23: the report holds the transcript block (the heading, then the
\* transcript as it was given) between the field lines and the footer exactly
\* when the transcript is a string that is not empty; without transcript or
\* with "" the report has no such heading; the banner, the field lines and the
\* footer are those of the report without transcript.
C23_TranscriptBlock ==
    Generated =>
        /\ EndsWith(WithoutTranscript, FooterText)
        /\ ~Contains(WithoutTranscript, L_transcription)
        /\ response.report_text =
            IF payload.transcript.some /\ payload.transcript.s # <<>>
            THEN DropLast(WithoutTranscript, Len(FooterText))
                 \o TranscriptBlock(payload.transcript.s) \o FooterText
            ELSE WithoutTranscript

\* A report with a transcript of two lines holds the block with both lines
C23_Witness ==
    /\ Generated
    /\ payload.transcript = Some(<<"a", "\n", "b">>)
    /\ payload.fields # <<>>
    /\ Contains(response.report_text,
                L_transcription \o <<"\n">> \o Rep("hline", RuleWidth)
                \o <<"\n", "\n", "a", "\n", "b", "\n", "\n", "\n", "hline">>)

----------------------------------------------------------------------------
(* The code fences around the answer.                                      *)

IsBlank(s) == \A i \in 1..Len(s) : s[i] \in {" ", "\n", "\t"}

\* The text is the marker with blanks before and after it
BlanksAround(s, marker) ==
    \E m \in 0..Len(s) :
        /\ m + Len(marker) <= Len(s)
        /\ IsBlank(SubSeq(s, 1, m))
        /\ SubSeq(s, m + 1, m + Len(marker)) = marker
        /\ IsBlank(SubSeq(s, m + Len(marker) + 1, Len(s)))

\* The answer is the JSON document, with or without an opening fence (with or
\* without "json") before it and a closing fence after it, and blanks anywhere
\* around them
IsFenced(raw) ==
    \E i \in 1..Len(raw) :
        /\ raw[i] = JsonChar
        /\ \E opening \in {<<>>, FENCE, FENCE_JSON} : BlanksAround(SubSeq(raw, 1, i - 1), opening)
        /\ \E closing \in {<<>>, FENCE} : BlanksAround(SubSeq(raw, i + 1, Len(raw)), closing)

\* What the try block gives for the same JSON document without anything around
BareExtract ==
    Extract(ChatCompletion([answer EXCEPT !.raw = <<JsonChar>>]), choice.field_schema)

\* C22: an answer that is a JSON object inside code fences (an opening fence
\* with or without "json", a closing fence, either or both, blanks around
\* them) gives the field map the bare JSON object gives.
C22_FencesTransparent ==
    (result.state # "none" /\ answer.kind = "content" /\ answer.doc.t = "obj"
     /\ IsFenced(answer.raw)) =>
        /\ ~BareExtract.raised
        /\ ~result.fellBack
        /\ result.extracted = BareExtract.fields
        /\ result.fields = AutoFillDateTime(BareExtract.fields, result.now).fields

\* An answer with blanks, an opening fence, the object and a closing fence was
\* parsed: the returned map holds the value of the object
C22_Witness ==
    /\ Returned
    /\ answer.kind = "content"
    /\ answer.raw = <<"\n", " ">> \o FENCE \o <<"\n", JsonChar, " ">> \o FENCE
    /\ IsFenced(answer.raw)
    /\ answer.doc = DocObj(<<Entry(F_Extra, V_text)>>)
    /\ ~result.fellBack
    /\ Get(result.fields.d, F_Extra) = V_text

----------------------------------------------------------------------------
(* The value cell of a row whose field the map lacks.                      *)

\* C25: when the first field that matches a row is not a key of the field
\* map, the right cell of the row is the empty string, whatever text the
\* template had there.
C25_AbsentFieldEmptiesCell ==
    Filled =>
        \A r \in 1..Len(RowsIn) : \A i \in 1..Len(FieldMapping) :
            (/\ FirstMatch(RowsIn[r], i)
             /\ \A e \in 1..Len(payload.fields) : payload.fields[e].k # FieldMapping[i])
                => RowsOut[r][2] = <<>>

\* The label "Adresse:" stood in the value cell of a row that Nom du chantier
\* matches, the map held the address only: the cell is empty
C25_Witness ==
    /\ Filled
    /\ Keys(payload.fields) = <<F_Adresse>>
    /\ RowsIn = <<<<<<"{">> \o F_NomChantier \o <<"}">>, F_Adresse \o <<":">>>>>>
    /\ RowsOut = <<<<<<>>, <<>>>>>>


----------------------------------------------------------------------------
(* The reset of the page.                                                   *)

\* C27: when reset_workflow returns, the session holds exactly the keys of
\* init_state, each with its default (empty transcript and widget text, empty
\* field map, empty report text, no stored audio, probleme_decouverte),
\* except mode, which has the value it had just before the reset
C27_ResetKeepsOnlyMode ==
    lastReset.some =>
        /\ DOMAIN lastReset.after = DOMAIN InitState(<<>>)
        /\ \A key \in DOMAIN lastReset.after :
            lastReset.after[key] =
                IF key = "mode" THEN lastReset.before.mode ELSE InitState(<<>>)[key]

\* A reset of an automatic-mode session that held a transcript, fields, a
\* report, a recording and widget keys
C27_Witness ==
    /\ lastReset.some
    /\ lastReset.before.mode = AUTO_MODE
    /\ lastReset.before.transcript # <<>>
    /\ lastReset.before.fields # <<>>
    /\ lastReset.before.report_text # <<>>
    /\ lastReset.before.audio_bytes # None
    /\ lastReset.before.template_type # T_probleme_decouverte
    /\ "fields_editor" \in DOMAIN lastReset.before
    /\ lastReset.after.mode = AUTO_MODE
=============================================================================
